---- MODULE Spec2Model ----
(***************************************************************************)
(* SmartFilter: the query-to-filter resolution pipeline.                   *)
(*                                                                         *)
(*   SpecKey    cacheKey: normalisation of (shop, collection, query)       *)
(*   SpecCache  the query cache: cacheGet / cacheSet / cacheFlushShop      *)
(*   SpecRate   the rate limiter: checkRateLimit and its periodic sweep    *)
(*   Spec       the request orchestrator: handleQueryRequest, the          *)
(*              taxonomy sync, the catalog-change webhook, the LLM call    *)
(*                                                                         *)
(* Strings whose characters matter (shop, collection handle, query, cache  *)
(* key) are sequences of one-character strings.  Time is an integer count  *)
(* of ticks; the durations of the source are scaled to a few ticks and the *)
(* capacity of the cache to a few entries.                                 *)
(***************************************************************************)
EXTENDS Integers, Sequences, FiniteSets, TLC

VARIABLES
    now,        \* Date.now(), in ticks
    cache,      \* queryCache: the Map, as the sequence of its entries in iteration order
    lastSet,    \* ghost: for each live key, the shop, time and value of its last cacheSet
    recency,    \* ghost: live keys in the order of their last use (hit or set), latest last
    cacheOp,    \* ghost: the last cache operation and what it returned
    kq,         \* SpecKey: the inputs of cacheKey under test
    windows,    \* rateLimiter: the Map from key to {windowStart, count}
    rlCfg,      \* the maxRequests and windowMs each key is checked with
    rlRef,      \* ghost: per key, the start of its current window and the calls since
    rlLog,      \* ghost: per key, the times of the allowed calls of the last windowMs
    rlOp,       \* ghost: the last rate-limiter operation and what it returned
    lastSweep,  \* the time the cleanup timer last fired
    shopRec,    \* the Shop row of the shop in the database
    catalog,    \* the version of the shop's product catalog at the platform
    req,        \* per request slot, the position and locals of handleQueryRequest
    bg,         \* the background sync a request started, while it runs
    webhook,    \* the products/* webhook of a catalog change, until it is handled
    resolvedWith, \* ghost: per cached key, the catalog version its result was resolved with
    flushedTax, \* ghost: the catalog version written by the last sync whose flush ran
    served,     \* ghost: the request the last step answered, if it answered one
    pf          \* the function under test, its arguments and what it returned

cacheVars == <<cache, lastSet, recency, cacheOp>>
keyVars == <<kq>>
rateVars == <<windows, rlCfg, rlRef, rlLog, rlOp, lastSweep>>
orchVars == <<shopRec, catalog, req, bg, webhook, resolvedWith, flushedTax, served>>
vars == <<now, cache, lastSet, recency, cacheOp, kq,
          windows, rlCfg, rlRef, rlLog, rlOp, lastSweep,
          shopRec, catalog, req, bg, webhook, resolvedWith, flushedTax, served, pf>>

\* What the actions of one specification leave alone.
KeyFrame == UNCHANGED <<now, cacheVars, rateVars, orchVars, pf>>
CacheFrame == UNCHANGED <<kq, rateVars, orchVars, pf>>
RateFrame == UNCHANGED <<kq, cacheVars, orchVars, pf>>
OrchFrame == UNCHANGED <<kq, rateVars, lastSet, recency, cacheOp, pf>>
GateFrame == UNCHANGED <<kq, rlCfg, rlRef, rlLog, rlOp, lastSweep, lastSet, recency, cacheOp, pf>>
PureFrame == UNCHANGED <<now, kq, cacheVars, rateVars, orchVars>>

(***************************************************************************)
(* Bounds of the model                                                     *)
(***************************************************************************)
\* Last tick of the clock.
MaxTime == 2
\* Longest query string of SpecKey.
MaxQueryLen == 3

\* Capacity of the cache (500 in the source, scaled).
MAX_ENTRIES == 2
\* Time to live of a cache entry (30 minutes in the source, scaled to ticks).
TTL_MS == 1

\* The orchestrator: the last version of the catalog.
MaxCatalog == 2
\* SpecRate: the last tick of its clock; a tick is 30 seconds there.
RateMaxTime == 6
\* SpecRate: the largest maxRequests a key is checked with.
MaxReq == 2

\* The age past which a taxonomy is stale: 6 hours, one tick of the orchestrator.
MAX_AGE_MS == 1
\* The longest query accepted: 500 characters in the source, scaled.
QueryLimit == 3
\* RATE_WINDOW_MS of the query route: 60 seconds.
RATE_WINDOW_MS == 2
\* AI_RATE_LIMIT of the query route (10 requests per window), scaled down.
AI_RATE_LIMIT == 2
\* The age past which the sweep removes a window: 120 seconds.
SWEEP_AGE_MS == 4
\* The period of the sweep: 60 seconds.
CLEANUP_INTERVAL == 2

(***************************************************************************)
(* Strings                                                                 *)
(***************************************************************************)
\* The white space of the model's strings.
WhiteSpace == {" "}

\* String.prototype.toLowerCase, character by character.
LowerChar(c) ==
    CASE c = "A" -> "a" [] c = "B" -> "b" [] c = "C" -> "c"
      [] c = "R" -> "r" [] c = "S" -> "s" [] OTHER -> c
toLowerCase(s) == [i \in 1..Len(s) |-> LowerChar(s[i])]

\* String.prototype.trim: white space removed at both ends.
RECURSIVE trimStart(_)
trimStart(s) ==
    IF s # <<>> /\ Head(s) \in WhiteSpace THEN trimStart(Tail(s)) ELSE s
RECURSIVE trimEnd(_)
trimEnd(s) ==
    IF s # <<>> /\ s[Len(s)] \in WhiteSpace
    THEN trimEnd(SubSeq(s, 1, Len(s) - 1)) ELSE s
trim(s) == trimEnd(trimStart(s))

\* String.prototype.startsWith
startsWith(s, prefix) ==
    Len(s) >= Len(prefix) /\ SubSeq(s, 1, Len(prefix)) = prefix

\* All strings over cs of length at most n.
RECURSIVE StringsUpTo(_, _)
StringsUpTo(cs, n) ==
    IF n = 0 THEN {<<>>}
    ELSE LET shorter == StringsUpTo(cs, n - 1)
         IN  shorter \cup {Append(s, c) : s \in shorter, c \in cs}

(***************************************************************************)
(* cacheKey                                                                *)
(***************************************************************************)
\* A collection handle missing from the request body (undefined or null).
NoHandle == <<"<absent>">>
Delim == <<":", ":">>
AllHandle == <<"a", "l", "l">>

cacheKey_NoTrim(shop, collectionHandle, query) ==
    shop \o Delim
         \o (IF collectionHandle = NoHandle \/ collectionHandle = <<>>
             THEN AllHandle ELSE collectionHandle)
         \o Delim \o toLowerCase(query)

\* `${shop}::${collectionHandle || "all"}::${query.toLowerCase().trim()}`
cacheKey(shop, collectionHandle, query) ==
    shop \o Delim
         \o (IF collectionHandle = NoHandle \/ collectionHandle = <<>>
             THEN AllHandle ELSE collectionHandle)
         \o Delim \o trim(toLowerCase(query))

(***************************************************************************)
(* The query cache: a Map from key to {value, timestamp}; its iteration    *)
(* order is its insertion order                                            *)
(***************************************************************************)
\* What cacheGet returns on a miss (undefined).
NoValue == [t |-> "undefined"]
NoKey == <<"<none>">>

KeysOf(c) == {c[i].key : i \in 1..Len(c)}
\* Map.prototype.get: the position of the key's entry, 0 without one.
IndexOf(c, key) ==
    IF key \in KeysOf(c) THEN CHOOSE i \in 1..Len(c) : c[i].key = key ELSE 0
\* Map.prototype.delete
MapDelete(c, key) == SelectSeq(c, LAMBDA e : e.key # key)
\* Map.prototype.set of a key the map does not hold: appended last.
MapAppend(c, key, entry) ==
    Append(c, [key |-> key, value |-> entry.value, timestamp |-> entry.timestamp])

cacheGet_NoPromote(c, key, t) ==
    LET i == IndexOf(c, key)
    IN  IF i = 0 THEN [cache |-> c, hit |-> FALSE, value |-> NoValue]
        ELSE IF t - c[i].timestamp > TTL_MS
        THEN [cache |-> MapDelete(c, key), hit |-> FALSE, value |-> NoValue]
        ELSE [cache |-> c, hit |-> TRUE, value |-> c[i].value]

cacheGet_NoExpiry(c, key, t) ==
    LET i == IndexOf(c, key)
    IN  IF i = 0 THEN [cache |-> c, hit |-> FALSE, value |-> NoValue]
        ELSE [cache |-> MapAppend(MapDelete(c, key), key, c[i]),
              hit |-> TRUE, value |-> c[i].value]

cacheGet_Refresh(c, key, t) ==
    LET i == IndexOf(c, key)
    IN  IF i = 0 THEN [cache |-> c, hit |-> FALSE, value |-> NoValue]
        ELSE IF t - c[i].timestamp > TTL_MS
        THEN [cache |-> MapDelete(c, key), hit |-> FALSE, value |-> NoValue]
        ELSE [cache |-> MapAppend(MapDelete(c, key), key, [c[i] EXCEPT !.timestamp = t]),
              hit |-> TRUE, value |-> c[i].value]

\* cacheGet(key): the map afterwards and the value returned.
cacheGet(c, key, t) ==
    LET i == IndexOf(c, key)
    IN  IF i = 0 THEN [cache |-> c, hit |-> FALSE, value |-> NoValue]
        ELSE IF t - c[i].timestamp > TTL_MS
        THEN [cache |-> MapDelete(c, key), hit |-> FALSE, value |-> NoValue]
        ELSE [cache |-> MapAppend(MapDelete(c, key), key, c[i]),
              hit |-> TRUE, value |-> c[i].value]

cacheSet_EvictFirst(c, key, value, t) ==
    LET room == IF Len(c) >= MAX_ENTRIES THEN Tail(c) ELSE c
    IN  MapAppend(MapDelete(room, key), key, [value |-> value, timestamp |-> t])

cacheSet_NoEvict(c, key, value, t) ==
    MapAppend(MapDelete(c, key), key, [value |-> value, timestamp |-> t])

\* cacheSet(key, value): the map afterwards.
cacheSet(c, key, value, t) ==
    LET deleted == MapDelete(c, key)
        room == IF Len(deleted) >= MAX_ENTRIES THEN Tail(deleted) ELSE deleted
    IN  MapAppend(room, key, [value |-> value, timestamp |-> t])

cacheFlushShop_NoDelim(c, shopDomain) ==
    SelectSeq(c, LAMBDA e : ~startsWith(e.key, shopDomain))

\* cacheFlushShop(shopDomain): the map afterwards.
cacheFlushShop(c, shopDomain) ==
    SelectSeq(c, LAMBDA e : ~startsWith(e.key, shopDomain \o Delim))

\* The ghost record of a cache operation: the operation, its key (the shop
\* of a flush), what a cacheGet returned, and the case the operation met.
OpRecord(op, key) ==
    [op |-> op, key |-> key, hit |-> FALSE, value |-> NoValue, case |-> "none"]

\* The cache and its ghosts before any operation.
CacheIdle ==
    /\ cache = <<>>
    /\ lastSet = {}
    /\ recency = <<>>
    /\ cacheOp = OpRecord("init", NoKey)

(***************************************************************************)
(* The rate limiter: a Map from key to {windowStart, count}                *)
(***************************************************************************)
NoWindow == [none |-> TRUE]
\* The key of the query route for one shop, and the key of another caller.
RateKeys == {"ai:a", "other"}
\* A windowMs longer than the sweep's threshold (180 seconds).
LongWindow == SWEEP_AGE_MS + 2
\* The route's configuration with any maxRequests; the other caller's with
\* either window length.
RateConfigs ==
    { c \in [RateKeys -> [maxRequests : 1..MaxReq,
                          windowMs : {RATE_WINDOW_MS, LongWindow}]] :
        /\ c["ai:a"].windowMs = RATE_WINDOW_MS
        /\ c["other"].maxRequests = 1 }

\* The denied calls one window is followed for.
MaxDenied == 2

checkRateLimit_DeniedExtends(w, key, maxRequests, windowMs, t) ==
    LET entry == w[key]
    IN  IF entry = NoWindow \/ t - entry.windowStart >= windowMs
        THEN [windows |-> [w EXCEPT ![key] = [windowStart |-> t, count |-> 1]],
              allowed |-> TRUE, remaining |-> maxRequests - 1]
        ELSE LET count == entry.count + 1
             IN  [windows |-> [w EXCEPT ![key] =
                                 [windowStart |-> IF count > maxRequests THEN t
                                                  ELSE entry.windowStart,
                                  count |-> count]],
                  allowed |-> ~(count > maxRequests),
                  remaining |-> IF count > maxRequests THEN 0
                                ELSE maxRequests - count]

checkRateLimit_StrictElapsed(w, key, maxRequests, windowMs, t) ==
    LET entry == w[key]
    IN  IF entry = NoWindow \/ t - entry.windowStart > windowMs
        THEN [windows |-> [w EXCEPT ![key] = [windowStart |-> t, count |-> 1]],
              allowed |-> TRUE, remaining |-> maxRequests - 1]
        ELSE LET count == entry.count + 1
             IN  [windows |-> [w EXCEPT ![key] = [windowStart |-> entry.windowStart,
                                                  count |-> count]],
                  allowed |-> ~(count > maxRequests),
                  remaining |-> IF count > maxRequests THEN 0
                                ELSE maxRequests - count]

\* checkRateLimit(key, maxRequests, windowMs): the map afterwards and the
\* {allowed, remaining} returned.
checkRateLimit(w, key, maxRequests, windowMs, t) ==
    LET entry == w[key]
    IN  IF entry = NoWindow \/ t - entry.windowStart >= windowMs
        THEN [windows |-> [w EXCEPT ![key] = [windowStart |-> t, count |-> 1]],
              allowed |-> TRUE, remaining |-> maxRequests - 1]
        ELSE LET count == entry.count + 1
             IN  [windows |-> [w EXCEPT ![key] = [windowStart |-> entry.windowStart,
                                                  count |-> count]],
                  allowed |-> ~(count > maxRequests),
                  remaining |-> IF count > maxRequests THEN 0
                                ELSE maxRequests - count]

\* The callback of the cleanup timer: the map afterwards.
sweepWindows(w, t) ==
    [k \in DOMAIN w |->
        IF w[k] # NoWindow /\ t - w[k].windowStart > SWEEP_AGE_MS
        THEN NoWindow ELSE w[k]]

RateOp(op, key) ==
    [op |-> op, key |-> key, allowed |-> FALSE, remaining |-> 0, case |-> "none",
     deniedBefore |-> 0]
NoRef == [none |-> TRUE]

\* The rate limiter and its ghosts before any call.
RateIdle ==
    /\ windows = [k \in RateKeys |-> NoWindow]
    /\ rlCfg = [k \in RateKeys |-> [maxRequests |-> 1, windowMs |-> RATE_WINDOW_MS]]
    /\ rlRef = [k \in RateKeys |-> NoRef]
    /\ rlLog = [k \in RateKeys |-> <<>>]
    /\ rlOp = RateOp("init", "")
    /\ lastSweep = 0

(***************************************************************************)
(* Filter descriptors as the model's tool call returns them (JSON values)  *)
(***************************************************************************)
\* A key the object does not have; reading it gives undefined.
Absent == [t |-> "absent"]
JSNull == [t |-> "null"]
JSNaN == [t |-> "nan"]
JSStr(s) == [t |-> "string", v |-> s]
JSNum(n) == [t |-> "number", v |-> n]
JSBool(b) == [t |-> "boolean", v |-> b]
\* A string such as "abc" that parseFloat turns into NaN.
JSBadStr == [t |-> "string", v |-> <<"x">>, nan |-> TRUE]
\* A string such as "50" that parseFloat turns into the number n.
JSNumStr(n) == [t |-> "string", v |-> <<"#">>, num |-> n]
JSPrice(min, max) == [t |-> "object", min |-> min, max |-> max]
JSOption(name, value) == [t |-> "object", name |-> name, value |-> value]

FilterKeys == {"productType", "productVendor", "tag", "available", "price", "variantOption"}
EmptyFilter == [k \in FilterKeys |-> Absent]
\* Object.keys(f)
ObjectKeys(f) == {k \in FilterKeys : f[k] # Absent}
\* JavaScript truthiness of the values of the model.
Truthy(x) ==
    CASE x.t = "absent" -> FALSE
      [] x.t = "null" -> FALSE
      [] x.t = "nan" -> FALSE
      [] x.t = "string" -> x.v # <<>>
      [] x.t = "number" -> x.v # 0
      [] x.t = "boolean" -> x.v
      [] OTHER -> TRUE

\* typeof x === "string" ? parseFloat(x) : x, then NaN and undefined dropped.
\* The result is Absent (undefined), a number, or null (isNaN(null) is false).
PriceBound(x) ==
    CASE x.t = "absent" -> Absent
      [] x.t = "string" -> IF "num" \in DOMAIN x THEN JSNum(x.num) ELSE Absent
      [] x.t = "nan" -> Absent
      [] OTHER -> x
\* The number a relational operator sees (null is 0).
ToNumber(x) == IF x.t = "number" THEN x.v ELSE 0

\* The map callback of sanitizeFilters.
sanitizeOne(f) ==
    IF ~Truthy(f.price) THEN f
    ELSE LET min0 == PriceBound(f.price.min)
             max0 == PriceBound(f.price.max)
             swap == min0 # Absent /\ max0 # Absent /\ ToNumber(min0) > ToNumber(max0)
             min == IF swap THEN max0 ELSE min0
             max == IF swap THEN min0 ELSE max0
         IN  IF min = Absent /\ max = Absent
             THEN [f EXCEPT !.price = Absent]
             ELSE [f EXCEPT !.price = JSPrice(min, max)]

\* sanitizeFilters(filters, taxonomyContext)
sanitizeFilters(filters) ==
    SelectSeq([i \in 1..Len(filters) |-> sanitizeOne(filters[i])],
              LAMBDA f : Cardinality(ObjectKeys(f)) > 0)

\* The keys of a filter whose value is neither undefined nor null.
MeaningfulKeys(f) == {k \in ObjectKeys(f) : f[k] # JSNull}
IsPriceOnly(f) == MeaningfulKeys(f) = {"price"}
HasPriceAndMore(f) == Truthy(f.price) /\ Cardinality(MeaningfulKeys(f)) > 1

\* mergeFilters' first loop: the price objects collected.
RECURSIVE PriceFilters(_)
PriceFilters(filters) ==
    IF filters = <<>> THEN <<>>
    ELSE LET f == Head(filters)
         IN  (IF IsPriceOnly(f) \/ HasPriceAndMore(f) THEN <<f.price>> ELSE <<>>)
                \o PriceFilters(Tail(filters))
\* mergeFilters' first loop: the filters kept, a mixed filter without its price.
RECURSIVE NonPriceFilters(_)
NonPriceFilters(filters) ==
    IF filters = <<>> THEN <<>>
    ELSE LET f == Head(filters)
         IN  (IF IsPriceOnly(f) THEN <<>>
              ELSE IF HasPriceAndMore(f) THEN <<[f EXCEPT !.price = Absent]>>
              ELSE <<f>>)
                \o NonPriceFilters(Tail(filters))
MergePrices_First(prices, merged) ==
    IF prices = <<>> THEN merged ELSE Head(prices)
\* mergeFilters' second loop: min of mins and max of maxes, from merged on.
RECURSIVE MergePrices(_, _)
MergePrices(prices, merged) ==
    IF prices = <<>> THEN merged
    ELSE LET pr == Head(prices)
             min == IF pr.min # Absent
                       /\ (merged.min = Absent \/ ToNumber(pr.min) < ToNumber(merged.min))
                    THEN pr.min ELSE merged.min
             max == IF pr.max # Absent
                       /\ (merged.max = Absent \/ ToNumber(pr.max) > ToNumber(merged.max))
                    THEN pr.max ELSE merged.max
         IN  MergePrices(Tail(prices), JSPrice(min, max))

\* mergeFilters(filters)
mergeFilters(filters) ==
    LET prices == PriceFilters(filters)
        kept == NonPriceFilters(filters)
        merged == MergePrices(prices, JSPrice(Absent, Absent))
    IN  IF prices # <<>> /\ (merged.min # Absent \/ merged.max # Absent)
        THEN Append(kept, [EmptyFilter EXCEPT !.price = merged])
        ELSE kept

(***************************************************************************)
(* Fuzzy correction of filter values against the taxonomy                  *)
(***************************************************************************)
\* b.includes(a)
includes(b, a) ==
    \E i \in 0..(Len(b) - Len(a)) : SubSeq(b, i + 1, i + Len(a)) = a

isSubstringMatch_NoGate(a, b) ==
    includes(toLowerCase(b), toLowerCase(a)) \/ includes(toLowerCase(a), toLowerCase(b))

isSubstringMatch(a, b) ==
    LET al == toLowerCase(a)
        bl == toLowerCase(b)
    IN  Len(al) >= 3 /\ (includes(bl, al) \/ includes(al, bl))

Min2(x, y) == IF x <= y THEN x ELSE y
RECURSIVE EditDistance(_, _)
EditDistance(a, b) ==
    IF a = <<>> THEN Len(b)
    ELSE IF b = <<>> THEN Len(a)
    ELSE IF Head(a) = Head(b) THEN EditDistance(Tail(a), Tail(b))
    ELSE 1 + Min2(EditDistance(Tail(a), Tail(b)),
                  Min2(EditDistance(Tail(a), b), EditDistance(a, Tail(b))))
\* similarity = 1 - distance / longer length, in fifths to stay in integers:
\* similarity >= 0.8 iff 5 * distance <= longer length.
AboveThreshold(a, b) ==
    LET al == toLowerCase(a)
        bl == toLowerCase(b)
        longer == IF Len(al) >= Len(bl) THEN Len(al) ELSE Len(bl)
    IN  5 * EditDistance(al, bl) <= longer
\* new Searcher(knownValues, {threshold}).search(value): the indices of the
\* known values at or above the threshold, best first, ties in list order.
searcherSearch(value, knownValues) ==
    LET ok == {i \in 1..Len(knownValues) : AboveThreshold(value, knownValues[i])}
        dist(i) == EditDistance(toLowerCase(value), toLowerCase(knownValues[i]))
        better(i, j) == dist(i) < dist(j) \/ (dist(i) = dist(j) /\ i < j)
    IN  IF ok = {} THEN <<>>
        ELSE <<CHOOSE i \in ok : \A j \in ok \ {i} : better(i, j)>>

\* Array.prototype.find and the first match of a for loop: the first of the
\* positions ok, 0 without one.
FirstIndex(ok) == IF ok = {} THEN 0 ELSE CHOOSE i \in ok : \A j \in ok : i <= j

\* value.toLowerCase() is a TypeError for a truthy value that is no string.
LowerThrows(value) == Truthy(value) /\ value.t # "string"

fuzzyMatchValue_SubstringFirst(value, knownValues) ==
    IF ~Truthy(value) \/ knownValues = <<>> THEN value
    ELSE LET sub == FirstIndex({i \in 1..Len(knownValues) :
                                  isSubstringMatch(value.v, knownValues[i])})
         IN  IF sub # 0 THEN JSStr(knownValues[sub]) ELSE value
\* fuzzyMatchValue(value, knownValues) for a value on which it does not throw.
fuzzyMatchValue(value, knownValues) ==
    IF ~Truthy(value) \/ knownValues = <<>> THEN value
    ELSE LET exact == FirstIndex({i \in 1..Len(knownValues) :
                                    toLowerCase(knownValues[i]) = toLowerCase(value.v)})
             sub == FirstIndex({i \in 1..Len(knownValues) :
                                  isSubstringMatch(value.v, knownValues[i])})
             results == searcherSearch(value.v, knownValues)
         IN  IF exact # 0 THEN JSStr(knownValues[exact])
             ELSE IF sub # 0 THEN JSStr(knownValues[sub])
             ELSE IF Len(results) > 0 THEN JSStr(knownValues[results[1]])
             ELSE value

OptionNames(variantOptions) == [i \in 1..Len(variantOptions) |-> variantOptions[i].name]

correctVariantOption_FirstGroup(vo, variantOptions) ==
    JSOption(fuzzyMatchValue(vo.name, OptionNames(variantOptions)),
             fuzzyMatchValue(vo.value, variantOptions[1].values))
\* The variantOption branch of fuzzyCorrectFilters' callback.
correctVariantOption(vo, variantOptions) ==
    LET matchedName == fuzzyMatchValue(vo.name, OptionNames(variantOptions))
        group == FirstIndex({i \in 1..Len(variantOptions) :
                        toLowerCase(variantOptions[i].name) = toLowerCase(matchedName.v)})
    IN  IF group # 0 /\ Truthy(vo.value)
        THEN JSOption(matchedName, fuzzyMatchValue(vo.value, variantOptions[group].values))
        ELSE JSOption(matchedName, vo.value)

\* The filters on which the callback of fuzzyCorrectFilters throws a TypeError.
correctThrows(f, taxonomy) ==
    \/ taxonomy.productTypes # <<>> /\ LowerThrows(f.productType)
    \/ taxonomy.vendors # <<>> /\ LowerThrows(f.productVendor)
    \/ taxonomy.tags # <<>> /\ LowerThrows(f.tag)
    \/ /\ Truthy(f.variantOption) /\ taxonomy.variantOptions # <<>>
       /\ \/ f.variantOption.t # "object"
          \/ f.variantOption.name.t # "string"
          \/ LET matchedName == fuzzyMatchValue(f.variantOption.name,
                                                OptionNames(taxonomy.variantOptions))
                 group == FirstIndex({i \in 1..Len(taxonomy.variantOptions) :
                                 toLowerCase(taxonomy.variantOptions[i].name)
                                    = toLowerCase(matchedName.v)})
             IN  group # 0 /\ LowerThrows(f.variantOption.value)

correctOne_FromEmpty(f, taxonomy) ==
    [EmptyFilter EXCEPT
        !.productType = fuzzyMatchValue(f.productType, taxonomy.productTypes),
        !.productVendor = fuzzyMatchValue(f.productVendor, taxonomy.vendors),
        !.tag = fuzzyMatchValue(f.tag, taxonomy.tags),
        !.variantOption = IF Truthy(f.variantOption) /\ taxonomy.variantOptions # <<>>
                          THEN correctVariantOption(f.variantOption, taxonomy.variantOptions)
                          ELSE f.variantOption]
\* The callback of fuzzyCorrectFilters.
correctOne(f, taxonomy) ==
    [f EXCEPT
        !.productType = IF Truthy(@) THEN fuzzyMatchValue(@, taxonomy.productTypes) ELSE @,
        !.productVendor = IF Truthy(@) THEN fuzzyMatchValue(@, taxonomy.vendors) ELSE @,
        !.tag = IF Truthy(@) THEN fuzzyMatchValue(@, taxonomy.tags) ELSE @,
        !.variantOption = IF Truthy(@) /\ taxonomy.variantOptions # <<>>
                          THEN correctVariantOption(@, taxonomy.variantOptions) ELSE @]

\* if (!taxonomy || !filters || filters.length === 0) return filters
ReturnsInput(filters, taxonomy) == taxonomy = Absent \/ filters = <<>>

fuzzyCorrectThrows(filters, taxonomy) ==
    /\ ~ReturnsInput(filters, taxonomy)
    /\ \E i \in 1..Len(filters) : correctThrows(filters[i], taxonomy)

\* fuzzyCorrectFilters(filters, taxonomy) on a list of filters (never null:
\* its callers pass an array) and a taxonomy that may be undefined.
fuzzyCorrectFilters(filters, taxonomy) ==
    IF ReturnsInput(filters, taxonomy) THEN filters
    ELSE [i \in 1..Len(filters) |-> correctOne(filters[i], taxonomy)]

(***************************************************************************)
(* The shop record, the taxonomy and the resolution of one query           *)
(***************************************************************************)
\* The shop of the orchestrator's requests.
Shop == <<"a">>
\* The requests in flight at a time, beside the background sync.
RequestIds == {1}
\* The request slots there are; SpecPair runs two requests side by side.
Slots == {1, 2}

Shoes == <<"S", "h", "o", "e", "s">>
Boots == <<"B", "o", "o", "t", "s">>
Color == <<"C", "o", "l", "o", "r">>
Red == <<"R", "e", "d">>

\* JSON.stringify and JSON.parse of a value; a column holds null or such a text.
JSONstringify(x) == [t |-> "json", of |-> x]
JSONparse(text) == text.of
JSDate(ms) == [t |-> "date", v |-> ms]

\* What one sync reads from version v of the catalog: the first version
\* sells shoes, the later ones boots, and the top price grows with each.
CatalogTaxonomy(v) ==
    [productTypes |-> IF v = 1 THEN <<Shoes>> ELSE <<Boots>>,
     vendors |-> <<>>,
     tags |-> <<>>,
     priceRange |-> [min |-> JSNum(5), max |-> JSNum(10 * v), currency |-> "USD"],
     variantOptions |-> <<[name |-> Color, values |-> <<Red>>]>>]
\* The context of a record whose five columns are null.
EmptyTaxonomy ==
    [productTypes |-> <<>>, vendors |-> <<>>, tags |-> <<>>,
     priceRange |-> [min |-> Absent, max |-> Absent, currency |-> Absent],
     variantOptions |-> <<>>]

TaxonomyColumns == {"productTypes", "vendors", "tags", "priceRange", "variantOptions"}
\* findUnique's null.
NoRecord ==
    [exists |-> FALSE, enabled |-> FALSE, taxonomySyncedAt |-> JSNull,
     columns |-> [c \in TaxonomyColumns |-> JSNull]]
\* prisma.shop.create({data: {domain}}): the defaults of the schema.
NewRecord ==
    [exists |-> TRUE, enabled |-> TRUE, taxonomySyncedAt |-> JSNull,
     columns |-> [c \in TaxonomyColumns |-> JSNull]]
\* The data of syncTaxonomy's update, written at time t.
SyncedRecord(rec, taxonomy, t) ==
    [rec EXCEPT !.taxonomySyncedAt = JSDate(t),
                !.columns = [c \in TaxonomyColumns |-> JSONstringify(taxonomy[c])]]

syncTaxonomy_PartialWrite(rec, fetched, t, ok) ==
    IF rec.exists
    THEN [rec EXCEPT !.columns = [c \in TaxonomyColumns |->
                                     JSONstringify(CatalogTaxonomy(fetched)[c])]]
    ELSE rec
\* syncTaxonomy(admin, shopDomain) on the row rec with the catalog read as
\* fetched: the row after it returned (ok) or threw; the one update at the
\* end writes the five columns and taxonomySyncedAt, nothing else writes.
syncTaxonomy(rec, fetched, t, ok) ==
    IF ok THEN SyncedRecord(rec, CatalogTaxonomy(fetched), t) ELSE rec

\* isTaxonomyStale(shopRecord) at Date.now() = t
isTaxonomyStale(shopRecord, t) ==
    IF shopRecord.taxonomySyncedAt = JSNull THEN TRUE
    ELSE t - shopRecord.taxonomySyncedAt.v > MAX_AGE_MS

\* A column text that is not JSON, and whether JSON.parse throws on a text.
Malformed == [t |-> "text"]
JSONparseThrows(text) == text.t # "json"

parseTaxonomy_PerField(shopRecord) ==
    IF ~shopRecord.exists THEN EmptyTaxonomy
    ELSE [c \in TaxonomyColumns |->
            IF shopRecord.columns[c] = JSNull \/ JSONparseThrows(shopRecord.columns[c])
            THEN EmptyTaxonomy[c]
            ELSE JSONparse(shopRecord.columns[c])]
\* parseTaxonomy(shopRecord): JSON.parse(column || default) per column, all
\* in one try whose catch returns the empty context; reading a column of a
\* null record throws inside the same try.
parseTaxonomy(shopRecord) ==
    IF ~shopRecord.exists THEN EmptyTaxonomy
    ELSE IF \E c \in TaxonomyColumns :
                shopRecord.columns[c] # JSNull /\ JSONparseThrows(shopRecord.columns[c])
         THEN EmptyTaxonomy
         ELSE [c \in TaxonomyColumns |->
                 IF shopRecord.columns[c] = JSNull THEN EmptyTaxonomy[c]
                 ELSE JSONparse(shopRecord.columns[c])]
\* Nothing leaves parseTaxonomy's try: its catch logs and returns a literal.
parseTaxonomyThrows(shopRecord) == FALSE

\* ghost: the catalog version a taxonomy context was read from, 0 for the
\* empty context.
VersionOf(taxonomy) ==
    IF taxonomy = EmptyTaxonomy THEN 0
    ELSE CHOOSE v \in 1..MaxCatalog : CatalogTaxonomy(v) = taxonomy

\* What the fetch of the completion and the parse of its body come to.
LlmOutcome(kind, filters, explanation, searchQuery) ==
    [kind |-> kind, filters |-> filters, explanation |-> explanation,
     searchQuery |-> searchQuery]
\* The filter lists the model's tool call carries.
OneFilter(k, x) == [EmptyFilter EXCEPT ![k] = x]
JSArr(xs) == [t |-> "array", v |-> xs]
RawFilterLists ==
    { <<>>,
      <<OneFilter("productType", JSStr(<<"s", "h", "o", "e", "s">>))>>,
      <<OneFilter("price", JSPrice(JSBadStr, Absent)), EmptyFilter>> }
LlmOutcomes ==
    { LlmOutcome("abort", Absent, "", Absent),
      LlmOutcome("error", Absent, "", Absent),
      LlmOutcome("badJson", Absent, "", Absent),
      LlmOutcome("noToolCall", Absent, "", Absent),
      LlmOutcome("badArguments", Absent, "", Absent),
      LlmOutcome("toolCall", Absent, "", JSStr(<<"b">>)) }
    \cup { LlmOutcome("toolCall", JSArr(fs), "ok", Absent) : fs \in RawFilterLists }

\* What mapQueryToFilters returns, or that it throws.
Result(filters, explanation, searchQuery) ==
    [threw |-> FALSE, filters |-> filters, explanation |-> explanation,
     searchQuery |-> searchQuery]
Thrown == [threw |-> TRUE, filters |-> <<>>, explanation |-> "", searchQuery |-> Absent]
CouldNotProcess == "I couldn't process your request. Please try again."
TookTooLong == "The request took too long. Please try a simpler query."

mapQueryToFilters_CatchAll(out, taxonomyContext) ==
    Result(<<>>, TookTooLong, Absent)
\* mapQueryToFilters(query, taxonomyContext, ...) when the call ends as out:
\* the timer aborted it ("abort"), fetch rejected ("error"), the body of the
\* response is not JSON ("badJson"), the response has no tool call, the tool
\* call's arguments are not JSON ("badArguments"), or they parse.
mapQueryToFilters(out, taxonomyContext) ==
    CASE out.kind = "abort" -> Result(<<>>, TookTooLong, Absent)
      [] out.kind \in {"error", "badJson", "badArguments"} -> Thrown
      [] out.kind = "noToolCall" -> Result(<<>>, CouldNotProcess, Absent)
      [] out.kind = "toolCall" ->
            LET filters == IF out.filters = Absent THEN <<>> ELSE out.filters.v
                explanation == out.explanation
                searchQuery == IF out.searchQuery = Absent THEN JSStr(<<>>) ELSE out.searchQuery
                merged == mergeFilters(sanitizeFilters(filters))
            IN  IF fuzzyCorrectThrows(merged, taxonomyContext) THEN Thrown
                ELSE Result(fuzzyCorrectFilters(merged, taxonomyContext), explanation,
                            IF Truthy(searchQuery) THEN searchQuery ELSE JSStr(<<>>))
      [] OTHER -> Thrown

ShouldStore_Always(result) == TRUE

\* result.filters.length > 0 || result.searchQuery
ShouldStore(result) == Len(result.filters) > 0 \/ Truthy(result.searchQuery)

\* The value handleQueryRequest stores: searchQuery || null.
StoredValue(result) ==
    [filters |-> result.filters, explanation |-> result.explanation,
     searchQuery |-> IF Truthy(result.searchQuery) THEN result.searchQuery ELSE JSNull]

\* The request bodies: unparseable, without a query, with a blank query, with
\* a query over the limit, and with two spellings of one query.
NoBody == [parsed |-> FALSE, query |-> Absent, collectionHandle |-> NoHandle]
Body(query) == [parsed |-> TRUE, query |-> query, collectionHandle |-> NoHandle]
Bodies ==
    { NoBody, Body(Absent), Body(JSStr(<<" ">>)),
      Body(JSStr([i \in 1..(QueryLimit + 1) |-> "a"])),
      Body(JSStr(<<"a">>)), Body(JSStr(<<"A", " ">>)) }

QueryError_AtLimit(body) ==
    IF ~body.parsed THEN "Invalid request body"
    ELSE IF ~Truthy(body.query) \/ body.query.t # "string" \/ Len(trim(body.query.v)) = 0
    THEN "Please enter a search query"
    ELSE IF Len(body.query.v) >= QueryLimit
    THEN "Query is too long. Please keep it under 500 characters."
    ELSE ""
\* Lines 91-115: the error the body is rejected with, "" when it passes.
QueryError(body) ==
    IF ~body.parsed THEN "Invalid request body"
    ELSE IF ~Truthy(body.query) \/ body.query.t # "string" \/ Len(trim(body.query.v)) = 0
    THEN "Please enter a search query"
    ELSE IF Len(body.query.v) > QueryLimit
    THEN "Query is too long. Please keep it under 500 characters."
    ELSE ""

\* jsonResponse(data); status 500 is an exception that left the handler.
Response(status, error, filters, explanation, searchQuery) ==
    [status |-> status, error |-> error, filters |-> filters,
     explanation |-> explanation, searchQuery |-> searchQuery]
ErrorResponse(error) == Response(200, JSStr(error), JSNull, JSNull, Absent)
\* Lines 260-267: the answer of the catch.
SomethingWentWrong == ErrorResponse("Something went wrong. Please try again.")
NoResponse == Response(0, JSNull, JSNull, JSNull, Absent)
Unhandled == Response(500, JSNull, JSNull, JSNull, Absent)

\* A request slot: where handleQueryRequest stands and its locals.
IdleRequest ==
    [pc |-> "idle", body |-> NoBody, shopRecord |-> NoRecord,
     taxonomyContext |-> EmptyTaxonomy, key |-> NoKey, fetched |-> 0,
     seen |-> NoRecord, trace |-> <<>>]
\* ghost: the request has done e; trace lists what it did, in order.
Did(rq, e) == [rq EXCEPT !.trace = Append(@, e)]
\* ghost: the request a step answers: its body and key, the shop record the
\* taxonomy check saw, the catalog version its inline sync read, the shop
\* record and the taxonomy context it ended with, what it did, the response,
\* how the LLM
\* call ended if there was one, whether the analytics write was started,
\* and for a cache hit the catalog version the entry was resolved with and
\* the version of the last flushed sync.
Served(rq, response, llm, analytics, cacheHit) ==
    [body |-> rq.body, key |-> rq.key, shopRecord |-> rq.shopRecord,
     seen |-> rq.seen, fetched |-> rq.fetched,
     taxonomyContext |-> rq.taxonomyContext, trace |-> rq.trace,
     response |-> response, llm |-> llm,
     analytics |-> analytics, cacheHit |-> cacheHit,
     hitTax |-> IF cacheHit THEN resolvedWith[rq.key] ELSE 0,
     flushedAtHit |-> IF cacheHit THEN flushedTax ELSE 0,
     bgFailed |-> FALSE]
NoLlm == LlmOutcome("none", Absent, "", Absent)
NoneServed == Served(IdleRequest, NoResponse, NoLlm, FALSE, FALSE)
\* ghost: the step is the background sync's failure, answering no request.
BgFailed == [NoneServed EXCEPT !.bgFailed = TRUE]
IdleSync == [pc |-> "idle", fetched |-> 0]
IdleWebhook == [pending |-> FALSE, uninstalled |-> FALSE]

\* No function is under test.
PfIdle == [fn |-> "none"]

OrchIdle ==
    /\ shopRec = NoRecord
    /\ catalog = 1
    /\ req = [r \in Slots |-> IdleRequest]
    /\ bg = IdleSync
    /\ webhook = IdleWebhook
    /\ resolvedWith = [key \in {} |-> 0]
    /\ flushedTax = 0
    /\ served = NoneServed
    /\ pf = PfIdle

(***************************************************************************)
(* SpecKey: cacheKey on queries that differ in case or surrounding white   *)
(* space, and on the spellings of a missing collection handle              *)
(***************************************************************************)
\* Shop identities are shop domains: letters, no delimiter character.  One
\* is a proper prefix of the other.
Shops == {<<"a">>, <<"a", "b">>}
Handles == {NoHandle, <<>>, AllHandle, <<"b">>}
DefaultHandles == {NoHandle, <<>>, AllHandle}
QueryChars == {"a", "A", "b", " "}

KeyIdle ==
    [shop |-> <<>>, handle |-> NoHandle, q0 |-> <<>>, q |-> <<>>, key0 |-> <<>>,
     edits |-> {}]

\* The other case of a letter; a character without case is left alone.
SwapCase(c) == IF c = "a" THEN "A" ELSE IF c = "A" THEN "a" ELSE c

\* The letter at position i changes case.
ChangeCase(i) ==
    /\ i \in 1..Len(kq.q)
    /\ SwapCase(kq.q[i]) # kq.q[i]
    /\ kq' = [kq EXCEPT !.q = [kq.q EXCEPT ![i] = SwapCase(kq.q[i])],
                        !.edits = @ \cup {"case"}]
    /\ KeyFrame

\* White space is added in front of or behind the query.
PadQuery ==
    /\ Len(kq.q) < MaxQueryLen + 2
    /\ \E w \in WhiteSpace :
          \/ kq' = [kq EXCEPT !.q = <<w>> \o kq.q, !.edits = @ \cup {"pad"}]
          \/ kq' = [kq EXCEPT !.q = Append(kq.q, w), !.edits = @ \cup {"pad"}]
    /\ KeyFrame

\* White space is taken away in front of or behind the query.
StripQuery ==
    /\ kq.q # <<>>
    /\ \/ /\ Head(kq.q) \in WhiteSpace
          /\ kq' = [kq EXCEPT !.q = Tail(kq.q), !.edits = @ \cup {"strip"}]
       \/ /\ kq.q[Len(kq.q)] \in WhiteSpace
          /\ kq' = [kq EXCEPT !.q = SubSeq(kq.q, 1, Len(kq.q) - 1),
                              !.edits = @ \cup {"strip"}]
    /\ KeyFrame

\* The query is replaced by its normal form, the last component of its key.
NormalizeQuery ==
    /\ kq' = [kq EXCEPT !.q = trim(toLowerCase(kq.q)), !.edits = @ \cup {"norm"}]
    /\ KeyFrame

\* A missing handle is spelled another way: absent, empty, or "all".
RespellHandle ==
    /\ kq.handle \in DefaultHandles
    /\ \E h \in DefaultHandles \ {kq.handle} :
          kq' = [kq EXCEPT !.handle = h, !.edits = @ \cup {"handle"}]
    /\ KeyFrame

InitKey ==
    /\ now = 0
    /\ OrchIdle
    /\ CacheIdle
    /\ RateIdle
    /\ \E s \in Shops, h \in Handles, q \in StringsUpTo(QueryChars, MaxQueryLen) :
          kq = [shop |-> s, handle |-> h, q0 |-> q, q |-> q,
                key0 |-> cacheKey(s, h, q), edits |-> {}]

NextKey ==
    \/ \E i \in 1..(MaxQueryLen + 2) : ChangeCase(i)
    \/ PadQuery
    \/ StripQuery
    \/ NormalizeQuery
    \/ RespellHandle

SpecKey == InitKey /\ [][NextKey]_vars

\* C5: queries that differ only in letter case or in leading/trailing white
\* space get the same key for every shop and handle, normalising a normalised
\* query changes nothing, and an absent or empty handle gives the key of "all".
C5_KeyNormalization ==
    /\ cacheKey(kq.shop, kq.handle, kq.q) = kq.key0
    /\ LET n == trim(toLowerCase(kq.q))
       IN  /\ trim(toLowerCase(n)) = n
           /\ cacheKey(kq.shop, kq.handle, n) = kq.key0
    /\ (kq.handle \in DefaultHandles
          => kq.key0 = cacheKey(kq.shop, AllHandle, kq.q0))

\* A query whose case and surrounding white space were both changed, under a
\* respelled missing handle.
C5_Witness ==
    /\ {"case", "pad", "handle"} \subseteq kq.edits
    /\ kq.q # kq.q0
    /\ toLowerCase(kq.q) # kq.q
    /\ trim(kq.q) # kq.q

(***************************************************************************)
(* SpecCache: any sequence of cacheGet, cacheSet and cacheFlushShop, with  *)
(* time passing in between                                                 *)
(***************************************************************************)
CacheQueries == {<<"a">>, <<"A", " ">>, <<"b">>}
CacheValues ==
    { [filters |-> <<>>, explanation |-> "first", searchQuery |-> "cozy"],
      [filters |-> <<>>, explanation |-> "second", searchQuery |-> "warm"] }

EntriesOf(c) == {c[i] : i \in 1..Len(c)}
SeqWithout(seq, x) == SelectSeq(seq, LAMBDA y : y # x)
SeqWithin(seq, S) == SelectSeq(seq, LAMBDA y : y \in S)

\* The ghost record of the key's last cacheSet, while the key is live.
HasLastSet(key) == \E g \in lastSet : g.key = key
LastSetOf(key) == CHOOSE g \in lastSet : g.key = key

\* A request looks its key up.
CacheGet(shop, handle, query) ==
    LET key == cacheKey(shop, handle, query)
        r == cacheGet(cache, key, now)
        old == HasLastSet(key) /\ now - LastSetOf(key).at > TTL_MS
    IN  /\ cache' = r.cache
        /\ recency' = SeqWithin(IF r.hit THEN Append(SeqWithout(recency, key), key)
                                         ELSE recency, KeysOf(r.cache))
        /\ lastSet' = {g \in lastSet : g.key \in KeysOf(r.cache)}
        /\ cacheOp' = [OpRecord("get", key) EXCEPT
                         !.hit = r.hit, !.value = r.value,
                         !.case = IF old THEN "expired"
                                  ELSE IF r.hit /\ cache[1].key = key /\ Len(cache) > 1
                                       THEN "oldestHit" ELSE "none"]
        /\ UNCHANGED now
        /\ CacheFrame

\* A request stores the result it resolved.
CacheSet(shop, handle, query, value) ==
    LET key == cacheKey(shop, handle, query)
        c == cacheSet(cache, key, value, now)
        overflow == Len(cache) >= MAX_ENTRIES /\ key \notin KeysOf(cache)
    IN  /\ cache' = c
        /\ recency' = SeqWithin(Append(SeqWithout(recency, key), key), KeysOf(c))
        /\ lastSet' = {g \in {h \in lastSet : h.key # key} \cup
                              {[key |-> key, shop |-> shop, at |-> now, value |-> value]} :
                          g.key \in KeysOf(c)}
        /\ cacheOp' = [OpRecord("set", key) EXCEPT
                         !.case = IF key \in KeysOf(cache) /\ Len(cache) >= MAX_ENTRIES
                                  THEN "rewriteFull"
                                  ELSE IF ~overflow THEN "none"
                                  ELSE IF cacheOp.case = "oldestHit" /\ cacheOp.key \in KeysOf(c)
                                       THEN "overflowAfterHit" ELSE "overflow"]
        /\ UNCHANGED now
        /\ CacheFrame

\* A taxonomy sync of the shop has completed.
CacheFlushShop(shop) ==
    LET c == cacheFlushShop(cache, shop)
    IN  /\ cache' = c
        /\ recency' = SeqWithin(recency, KeysOf(c))
        /\ lastSet' = {g \in lastSet : g.key \in KeysOf(c)}
        /\ cacheOp' = [OpRecord("flush", shop) EXCEPT
                         !.case = IF Len(c) < Len(cache)
                                     /\ \E g \in lastSet :
                                          /\ g.key \in KeysOf(c)
                                          /\ g.shop # shop /\ startsWith(g.shop, shop)
                                  THEN "keptOther" ELSE "none"]
        /\ UNCHANGED now
        /\ CacheFrame

\* Time passes.
CacheTick ==
    /\ now < MaxTime
    /\ now' = now + 1
    /\ cacheOp' = OpRecord("tick", NoKey)
    /\ UNCHANGED <<cache, lastSet, recency>>
    /\ CacheFrame

InitCache ==
    /\ now = 0
    /\ OrchIdle
    /\ CacheIdle
    /\ RateIdle
    /\ kq = KeyIdle

NextCache ==
    \/ \E s \in Shops, q \in CacheQueries : CacheGet(s, NoHandle, q)
    \/ \E s \in Shops, q \in CacheQueries, v \in CacheValues : CacheSet(s, NoHandle, q, v)
    \/ \E s \in Shops : CacheFlushShop(s)
    \/ CacheTick

SpecCache == InitCache /\ [][NextCache]_vars

\* C1: with the cache at capacity, a cacheSet of a key it does not hold
\* removes exactly one entry, the least recently used one (used: hit by a
\* cacheGet or written by a cacheSet); an entry hit just before the insert
\* survives it.
C1_LRUEviction ==
    [][ (cacheOp'.op = "set" /\ Len(cache) = MAX_ENTRIES
            /\ cacheOp'.key \notin KeysOf(cache))
        => LET victim == Head(SeqWithin(recency, KeysOf(cache)))
               added == {e \in EntriesOf(cache') : e.key = cacheOp'.key}
           IN  /\ victim \in KeysOf(cache)
               /\ victim \notin KeysOf(cache')
               /\ EntriesOf(cache') \ added
                    = {e \in EntriesOf(cache) : e.key # victim}
               /\ Cardinality(added) = 1
               /\ Len(cache') = MAX_ENTRIES
               /\ (cacheOp.op = "get" /\ cacheOp.hit /\ MAX_ENTRIES > 1
                     => cacheOp.key \in KeysOf(cache')) ]_vars

\* An overflow insert right after a hit on the oldest-inserted entry, which
\* is still there.
C1_Witness ==
    /\ cacheOp.op = "set" /\ cacheOp.case = "overflowAfterHit"
    /\ Len(cache) = MAX_ENTRIES

\* C2: the cache never holds more than MAX_ENTRIES entries.
C2_Capacity == Len(cache) <= MAX_ENTRIES

\* A full cache after an insert of a new key into a full cache, some time
\* after the first insert.
C2_Witness ==
    /\ cacheOp.op = "set" /\ cacheOp.case = "overflow"
    /\ Len(cache) = MAX_ENTRIES
    /\ now > 0

\* C3: a cacheGet of a live key returns the value last set while that set is
\* at most TTL old; past the TTL it returns nothing and removes the entry, so
\* that every later cacheGet misses until the key is set again.  No value
\* older than the TTL is ever returned.
C3_CacheTTL ==
    [][ cacheOp'.op = "get"
        => LET key == cacheOp'.key
               live == HasLastSet(key)
               age == now - LastSetOf(key).at
           IN  /\ (live /\ age <= TTL_MS
                     => cacheOp'.hit /\ cacheOp'.value = LastSetOf(key).value)
               /\ (live /\ age > TTL_MS
                     => ~cacheOp'.hit /\ key \notin KeysOf(cache'))
               /\ (~live => ~cacheOp'.hit)
               /\ (~cacheOp'.hit => cacheOp'.value = NoValue) ]_vars

\* A cacheGet that found its entry past the TTL.
C3_Witness ==
    /\ cacheOp.op = "get" /\ cacheOp.case = "expired"
    /\ ~cacheOp.hit
    /\ cacheOp.key \notin KeysOf(cache)

\* C4: cacheFlushShop(B) removes every entry built for shop B and leaves the
\* entries built for every other shop in place: same value, same timestamp,
\* same order.
C4_ShopScopedFlush ==
    [][ cacheOp'.op = "flush"
        => cache' = SelectSeq(cache,
                        LAMBDA e : LastSetOf(e.key).shop # cacheOp'.key) ]_vars

\* A flush that removed entries of one shop and left those of a shop whose
\* name begins with the flushed shop's name.
C4_Witness ==
    /\ cacheOp.op = "flush" /\ cacheOp.case = "keptOther"
    /\ cache # <<>>

(***************************************************************************)
(* SpecRate: calls of checkRateLimit for two keys, each with its own       *)
(* maxRequests and windowMs, the periodic sweep, and time passing          *)
(***************************************************************************)
\* The times of a log that lie in the last windowMs, t included.
Recent(log, t, windowMs) == SelectSeq(log, LAMBDA x : x > t - windowMs)

\* A request for the key arrives.
CheckRateLimit(key) ==
    LET cfg == rlCfg[key]
        r == checkRateLimit(windows, key, cfg.maxRequests, cfg.windowMs, now)
        ref == rlRef[key]
        fresh == ref = NoRef \/ now - ref.start >= cfg.windowMs
        calls == IF fresh THEN 1 ELSE ref.calls + 1
    IN  /\ calls <= cfg.maxRequests + MaxDenied
        /\ windows' = r.windows
        /\ rlRef' = [rlRef EXCEPT ![key] =
                        [start |-> IF fresh THEN now ELSE ref.start,
                         calls |-> calls,
                         denied |-> IF fresh THEN ~r.allowed ELSE ref.denied \/ ~r.allowed]]
        /\ rlLog' = [rlLog EXCEPT ![key] =
                        IF r.allowed THEN Append(Recent(@, now, cfg.windowMs), now)
                        ELSE Recent(@, now, cfg.windowMs)]
        /\ rlOp' = [RateOp("check", key) EXCEPT
                      !.allowed = r.allowed, !.remaining = r.remaining,
                      !.case = IF ref # NoRef /\ fresh /\ ref.denied
                               THEN "freshAfterDenied" ELSE "none",
                      !.deniedBefore = IF ref # NoRef /\ fresh /\ ref.calls > cfg.maxRequests
                                       THEN ref.calls - cfg.maxRequests ELSE 0]
        /\ UNCHANGED <<now, rlCfg, lastSweep>>
        /\ RateFrame

\* The cleanup timer fires; it never fires early.
Sweep ==
    LET w == sweepWindows(windows, now)
    IN  /\ now - lastSweep >= CLEANUP_INTERVAL
        /\ windows' = w
        /\ lastSweep' = now
        /\ rlOp' = [RateOp("sweep", "") EXCEPT
                      !.case = IF w # windows THEN "removed" ELSE "none"]
        /\ rlRef' = [k \in RateKeys |-> IF w[k] = NoWindow THEN NoRef ELSE rlRef[k]]
        /\ UNCHANGED <<now, rlCfg, rlLog>>
        /\ RateFrame

\* Time passes.
RateTick ==
    /\ now < RateMaxTime
    /\ now' = now + 1
    /\ rlLog' = [k \in RateKeys |-> Recent(rlLog[k], now + 1, rlCfg[k].windowMs)]
    /\ rlOp' = RateOp("tick", "")
    /\ UNCHANGED <<windows, rlCfg, rlRef, lastSweep>>
    /\ RateFrame

InitRate ==
    /\ now = 0
    /\ OrchIdle
    /\ CacheIdle
    /\ kq = KeyIdle
    /\ windows = [k \in RateKeys |-> NoWindow]
    /\ rlCfg \in RateConfigs
    /\ rlRef = [k \in RateKeys |-> NoRef]
    /\ rlLog = [k \in RateKeys |-> <<>>]
    /\ rlOp = RateOp("init", "")
    /\ lastSweep = 0

NextRate ==
    \/ \E k \in RateKeys : CheckRateLimit(k)
    \/ Sweep
    \/ RateTick

SpecRate == InitRate /\ [][NextRate]_vars

C7_SlidingWindow ==
    \A k \in RateKeys : Len(rlLog[k]) <= rlCfg[k].maxRequests

\* C8: a sweep removes exactly the windows that started more than twice their
\* key's windowMs ago, keeps every other window as it is, and so never removes
\* a window still inside its duration.
C8_SweepTwiceWindow ==
    [][ rlOp'.op = "sweep"
        => \A k \in RateKeys :
             IF windows[k] # NoWindow
                  /\ now - windows[k].windowStart > 2 * rlCfg[k].windowMs
             THEN windows'[k] = NoWindow
             ELSE /\ windows'[k] = windows[k]
                  /\ (windows[k] # NoWindow /\ windows'[k] = NoWindow
                        => now - windows[k].windowStart >= rlCfg[k].windowMs) ]_vars

(***************************************************************************)
(* Spec: the request orchestrator.  A query request of the shop passes     *)
(* the route's action (authentication, rate limit) and runs                *)
(* handleQueryRequest, one step per await; taxonomy syncs run inline or in *)
(* the background; reads of the catalog, the database and the LLM call may *)
(* fail; the catalog changes and its webhook is handled; the settings form *)
(* is saved; the app is uninstalled; time passes                           *)
(***************************************************************************)
\* ghost: resolvedWith cut down to the keys of cache c, key k resolved with v.
Resolved(c, k, v) ==
    [key \in KeysOf(c) |-> IF key = k THEN v ELSE resolvedWith[key]]

\* The request rq of slot r returns response: the slot is free again.
Respond(r, rq, response, llm, analytics, cacheHit) ==
    /\ req' = [req EXCEPT ![r] = IdleRequest]
    /\ served' = Served(rq, response, llm, analytics, cacheHit)
Reject(r, rq, error) == Respond(r, rq, ErrorResponse(error), NoLlm, FALSE, FALSE)

\* Lines 174-189 and 227-242: the arguments of the analytics writes read
\* shopRecord.id, which throws when the reload gave null; otherwise the
\* writes are started and nobody waits for them.
AnalyticsThrows(rq) == ~rq.shopRecord.exists

Disabled_Never(shopRecord) == FALSE
\* Line 124: the shop's row says the filter is switched off.
Disabled(shopRecord) == ~shopRecord.enabled

\* Lines 161-205 for the request rq of slot r: taxonomy context, cache check,
\* and the response of a cache hit; on a miss mapQueryToFilters is called.
CacheCheck(r, rq) ==
    LET taxonomyContext == parseTaxonomy(rq.shopRecord)
        key == cacheKey(Shop, rq.body.collectionHandle, rq.body.query.v)
        cached == cacheGet(cache, key, now)
        checked == [Did(rq, "cacheGet") EXCEPT !.key = key,
                                               !.taxonomyContext = taxonomyContext]
    IN  /\ cache' = cached.cache
        /\ resolvedWith' = Resolved(cached.cache, NoKey, 0)
        /\ IF cached.hit
           THEN IF AnalyticsThrows(rq)
                THEN Respond(r, checked, Unhandled, NoLlm, FALSE, TRUE)
                ELSE Respond(r, Did(checked, "analytics"),
                             Response(200, JSNull, JSArr(cached.value.filters),
                                      JSStr(cached.value.explanation),
                                      cached.value.searchQuery),
                             NoLlm, TRUE, TRUE)
           ELSE /\ req' = [req EXCEPT ![r] = [Did(checked, "llm") EXCEPT !.pc = "llm"]]
                /\ served' = NoneServed

\* Lines 124-159 for the request rq of slot r, then the cache check unless
\* the request is rejected or has to sync first.  One background sync is in
\* flight at a time: a request that would start a second one takes this
\* step once the first has ended.
TaxonomyCheck(r, rq) ==
    LET at == [rq EXCEPT !.seen = rq.shopRecord]
    IN  IF Disabled(rq.shopRecord)
        THEN /\ Reject(r, at, "AI Filter is currently disabled for this store.")
             /\ UNCHANGED <<cache, resolvedWith, bg>>
        ELSE IF isTaxonomyStale(rq.shopRecord, now)
        THEN IF ~Truthy(rq.shopRecord.taxonomySyncedAt)
             THEN /\ req' = [req EXCEPT ![r] = [Did(at, "sync") EXCEPT !.pc = "syncFetch"]]
                  /\ UNCHANGED <<cache, resolvedWith, bg>>
                  /\ served' = NoneServed
             ELSE /\ bg.pc = "idle"
                  /\ bg' = [pc |-> "fetch", fetched |-> 0]
                  /\ CacheCheck(r, Did(at, "bgSync"))
        ELSE /\ UNCHANGED bg
             /\ CacheCheck(r, at)

\* Lines 41-65 and 77-80: a POST to the query path arrives and the caller is
\* authenticated; without a session of the shop it is turned away before
\* anything of the request is read, over the rate limit too; otherwise
\* handleQueryRequest starts the parse of the body and the lookup of the
\* shop.  An uninstalled shop has no session.  A caller over the limit waits
\* for the window to end before it calls again.
Arrive(r, authorized, body) ==
    /\ req[r].pc = "idle"
    /\ authorized => ~webhook.uninstalled
    /\ ~authorized => body = NoBody
    /\ LET rq == [IdleRequest EXCEPT !.body = body]
           limit == checkRateLimit(windows, "ai:a", AI_RATE_LIMIT, RATE_WINDOW_MS, now)
       IN  IF ~authorized
           THEN /\ Reject(r, rq, "Unauthorized")
                /\ UNCHANGED windows
           ELSE /\ limit.windows["ai:a"].count <= AI_RATE_LIMIT + 1
                /\ windows' = limit.windows
                /\ IF limit.allowed
                   THEN /\ req' = [req EXCEPT ![r] =
                               [Did(rq, "rateLimit") EXCEPT !.pc = "lookup"]]
                        /\ served' = NoneServed
                   ELSE Reject(r, Did(IdleRequest, "rateLimit"),
                               "Too many requests. Please wait a moment and try again.")
    /\ UNCHANGED <<now, cache, shopRec, catalog, bg, webhook, resolvedWith, flushedTax>>
    /\ GateFrame

\* Lines 77-130: the body and the shop record are there; validation.
Lookup(r) ==
    /\ req[r].pc = "lookup"
    /\ LET rq == [req[r] EXCEPT !.shopRecord = shopRec]
           query == rq.body.query
           Invalid(error) ==
               /\ Reject(r, rq, error)
               /\ UNCHANGED <<cache, resolvedWith, bg>>
       IN  IF QueryError(rq.body) # "" THEN Invalid(QueryError(rq.body))
           ELSE IF ~rq.shopRecord.exists
           THEN /\ req' = [req EXCEPT ![r] = [rq EXCEPT !.pc = "create"]]
                /\ UNCHANGED <<cache, resolvedWith, bg>>
                /\ served' = NoneServed
           ELSE TaxonomyCheck(r, rq)
    /\ UNCHANGED <<now, shopRec, catalog, webhook, flushedTax>>
    /\ OrchFrame

\* Lines 76-87: prisma.shop.findUnique rejects; the catch answers.
LookupFail(r) ==
    /\ req[r].pc = "lookup"
    /\ Reject(r, req[r], "Invalid request body")
    /\ UNCHANGED <<now, cache, shopRec, catalog, bg, webhook, resolvedWith, flushedTax>>
    /\ OrchFrame

\* Lines 118-122: prisma.shop.create resolves, or rejects on the unique
\* domain when the row was created meanwhile; nothing catches that.
Create(r) ==
    /\ req[r].pc = "create"
    /\ IF shopRec.exists
       THEN /\ Respond(r, req[r], Unhandled, NoLlm, FALSE, FALSE)
            /\ UNCHANGED <<shopRec, cache, resolvedWith, bg>>
       ELSE /\ shopRec' = NewRecord
            /\ TaxonomyCheck(r, [req[r] EXCEPT !.shopRecord = NewRecord])
    /\ UNCHANGED <<now, catalog, webhook, flushedTax>>
    /\ OrchFrame

\* Lines 138-139, inline: syncTaxonomy has read the catalog (the pages of
\* product types, vendors and tags, the price range, the options).
SyncFetch(r) ==
    /\ req[r].pc = "syncFetch"
    /\ req' = [req EXCEPT ![r] = [@ EXCEPT !.pc = "syncWrite", !.fetched = catalog]]
    /\ UNCHANGED <<now, cache, shopRec, catalog, bg, webhook, resolvedWith, flushedTax>>
    /\ served' = NoneServed
    /\ OrchFrame

\* Lines 143-146: a read of the catalog failed and syncTaxonomy threw; the
\* request goes on with the shop record it has.
SyncFetchFail(r) ==
    /\ req[r].pc = "syncFetch"
    /\ shopRec' = syncTaxonomy(shopRec, catalog, now, FALSE)
    /\ CacheCheck(r, Did(req[r], "syncFail"))
    /\ UNCHANGED <<now, catalog, bg, webhook, flushedTax>>
    /\ OrchFrame

\* syncTaxonomy's prisma.shop.update commits (part_000 lines 484-494).
SyncWrite(r) ==
    /\ req[r].pc = "syncWrite"
    /\ shopRec.exists
    /\ shopRec' = syncTaxonomy(shopRec, req[r].fetched, now, TRUE)
    /\ req' = [req EXCEPT ![r] = [@ EXCEPT !.pc = "syncFlush"]]
    /\ UNCHANGED <<now, cache, catalog, bg, webhook, resolvedWith, flushedTax>>
    /\ served' = NoneServed
    /\ OrchFrame

\* The update rejects (the row is gone, or the database fails) and
\* syncTaxonomy throws; lines 143-146 as above.
SyncWriteFail(r) ==
    /\ req[r].pc = "syncWrite"
    /\ shopRec' = syncTaxonomy(shopRec, req[r].fetched, now, FALSE)
    /\ CacheCheck(r, Did(req[r], "syncFail"))
    /\ UNCHANGED <<now, catalog, bg, webhook, flushedTax>>
    /\ OrchFrame

\* Lines 140-142: syncTaxonomy has returned; the shop's entries are flushed
\* and the reload of the shop record is started.
SyncFlush(r) ==
    /\ req[r].pc = "syncFlush"
    /\ cache' = cacheFlushShop(cache, Shop)
    /\ resolvedWith' = Resolved(cache', NoKey, 0)
    /\ flushedTax' = req[r].fetched
    /\ req' = [req EXCEPT ![r] = [Did(Did(@, "syncOk"), "flush") EXCEPT !.pc = "reload"]]
    /\ UNCHANGED <<now, shopRec, catalog, bg, webhook>>
    /\ served' = NoneServed
    /\ OrchFrame

\* Line 142 and on: the reload resolves with the row, or with null when the
\* row is gone.
Reload(r) ==
    /\ req[r].pc = "reload"
    /\ CacheCheck(r, [Did(req[r], "reload") EXCEPT !.shopRecord = shopRec])
    /\ UNCHANGED <<now, shopRec, catalog, bg, webhook, flushedTax>>
    /\ OrchFrame

\* Lines 142-146: the reload rejects; the catch logs it and the request goes
\* on with the shop record it had before the sync.
ReloadFail(r) ==
    /\ req[r].pc = "reload"
    /\ CacheCheck(r, Did(req[r], "reloadFail"))
    /\ UNCHANGED <<now, shopRec, catalog, bg, webhook, flushedTax>>
    /\ OrchFrame

\* Lines 149-157, background: syncTaxonomy has read the catalog.
BgFetch ==
    /\ bg.pc = "fetch"
    /\ bg' = [pc |-> "write", fetched |-> catalog]
    /\ UNCHANGED <<now, cache, shopRec, catalog, req, webhook, resolvedWith, flushedTax>>
    /\ served' = NoneServed
    /\ OrchFrame

\* Lines 154-156: a read of the catalog failed and syncTaxonomy threw; the
\* failure is logged.
BgFetchFail ==
    /\ bg.pc = "fetch"
    /\ shopRec' = syncTaxonomy(shopRec, catalog, now, FALSE)
    /\ bg' = IdleSync
    /\ UNCHANGED <<now, cache, catalog, req, webhook, resolvedWith, flushedTax>>
    /\ served' = BgFailed
    /\ OrchFrame

\* The background sync's prisma.shop.update commits.
BgWrite ==
    /\ bg.pc = "write"
    /\ shopRec.exists
    /\ shopRec' = syncTaxonomy(shopRec, bg.fetched, now, TRUE)
    /\ bg' = [bg EXCEPT !.pc = "flush"]
    /\ UNCHANGED <<now, cache, catalog, req, webhook, resolvedWith, flushedTax>>
    /\ served' = NoneServed
    /\ OrchFrame

\* The update rejects and syncTaxonomy throws; lines 154-156 log it.
BgWriteFail ==
    /\ bg.pc = "write"
    /\ shopRec' = syncTaxonomy(shopRec, bg.fetched, now, FALSE)
    /\ bg' = IdleSync
    /\ UNCHANGED <<now, cache, catalog, req, webhook, resolvedWith, flushedTax>>
    /\ served' = BgFailed
    /\ OrchFrame

\* Line 153: the background sync has returned; the shop's entries are flushed.
BgFlush ==
    /\ bg.pc = "flush"
    /\ cache' = cacheFlushShop(cache, Shop)
    /\ resolvedWith' = Resolved(cache', NoKey, 0)
    /\ flushedTax' = bg.fetched
    /\ bg' = IdleSync
    /\ UNCHANGED <<now, shopRec, catalog, req, webhook>>
    /\ served' = NoneServed
    /\ OrchFrame

LlmReturn_Retry(r, out) ==
    /\ req[r].pc = "llm"
    /\ Len(req[r].trace) < 12
    /\ req' = [req EXCEPT ![r] = Did(@, "llm")]
    /\ served' = NoneServed
    /\ UNCHANGED <<now, cache, shopRec, catalog, bg, webhook, resolvedWith, flushedTax>>
    /\ OrchFrame
\* Lines 207-267: mapQueryToFilters has settled as out; the result is stored
\* if it has filters or a search query, the analytics writes are started and
\* the response is sent; whatever throws on the way is answered by the catch.
LlmReturn(r, out) ==
    /\ req[r].pc = "llm"
    /\ LET rq == req[r]
           result == mapQueryToFilters(out, rq.taxonomyContext)
           stored == IF ShouldStore(result) THEN Did(rq, "cacheSet") ELSE rq
       IN  IF result.threw
           THEN /\ Respond(r, rq, SomethingWentWrong, out, FALSE, FALSE)
                /\ UNCHANGED <<cache, resolvedWith>>
           ELSE /\ IF ShouldStore(result)
                   THEN /\ cache' = cacheSet(cache, rq.key, StoredValue(result), now)
                        /\ resolvedWith' = Resolved(cache', rq.key,
                                                    VersionOf(rq.taxonomyContext))
                   ELSE UNCHANGED <<cache, resolvedWith>>
                /\ IF AnalyticsThrows(rq)
                   THEN Respond(r, stored, SomethingWentWrong, out, FALSE, FALSE)
                   ELSE Respond(r, Did(stored, "analytics"),
                                Response(200, JSNull, JSArr(result.filters),
                                         JSStr(result.explanation),
                                         StoredValue(result).searchQuery),
                                out, TRUE, FALSE)
    /\ UNCHANGED <<now, shopRec, catalog, bg, webhook, flushedTax>>
    /\ OrchFrame

\* The merchant changes a product; the platform will send a webhook.
CatalogChange ==
    /\ catalog < MaxCatalog
    /\ ~webhook.pending
    /\ catalog' = catalog + 1
    /\ webhook' = [webhook EXCEPT !.pending = TRUE]
    /\ UNCHANGED <<now, cache, shopRec, req, bg, resolvedWith, flushedTax>>
    /\ served' = NoneServed
    /\ OrchFrame

\* handleProductChange: the shop record is looked up and, if there is one,
\* its taxonomySyncedAt is set to null.
HandleProductChange ==
    /\ webhook.pending
    /\ shopRec' = IF shopRec.exists THEN [shopRec EXCEPT !.taxonomySyncedAt = JSNull]
                  ELSE shopRec
    /\ webhook' = [webhook EXCEPT !.pending = FALSE]
    /\ UNCHANGED <<now, cache, catalog, req, bg, resolvedWith, flushedTax>>
    /\ served' = NoneServed
    /\ OrchFrame

\* handleAppUninstalled: the shop's row and its sessions are deleted.  The
\* shop is not installed again.
HandleAppUninstalled ==
    /\ ~webhook.uninstalled
    /\ shopRec' = NoRecord
    /\ webhook' = [webhook EXCEPT !.uninstalled = TRUE]
    /\ UNCHANGED <<now, cache, catalog, req, bg, resolvedWith, flushedTax>>
    /\ served' = NoneServed
    /\ OrchFrame

\* The merchant saves the settings form of the installed app: the row is
\* upserted with enabled.
SaveSettings(enabled) ==
    /\ ~webhook.uninstalled
    /\ shopRec' = IF shopRec.exists THEN [shopRec EXCEPT !.enabled = enabled]
                  ELSE [NewRecord EXCEPT !.enabled = enabled]
    /\ shopRec' # shopRec
    /\ UNCHANGED <<now, cache, catalog, req, bg, webhook, resolvedWith, flushedTax>>
    /\ served' = NoneServed
    /\ OrchFrame

\* Time passes.
Tick ==
    /\ now < MaxTime
    /\ now' = now + 1
    /\ UNCHANGED <<cache, shopRec, catalog, req, bg, webhook, resolvedWith, flushedTax>>
    /\ served' = NoneServed
    /\ OrchFrame

Init ==
    /\ now = 0
    /\ CacheIdle
    /\ RateIdle
    /\ kq = KeyIdle
    /\ OrchIdle

Next ==
    \/ \E r \in RequestIds, authorized \in BOOLEAN, body \in Bodies :
            Arrive(r, authorized, body)
    \/ \E r \in RequestIds : Lookup(r)
    \/ \E r \in RequestIds : LookupFail(r)
    \/ \E r \in RequestIds : Create(r)
    \/ \E r \in RequestIds : SyncFetch(r)
    \/ \E r \in RequestIds : SyncFetchFail(r)
    \/ \E r \in RequestIds : SyncWrite(r)
    \/ \E r \in RequestIds : SyncWriteFail(r)
    \/ \E r \in RequestIds : SyncFlush(r)
    \/ \E r \in RequestIds : Reload(r)
    \/ \E r \in RequestIds : ReloadFail(r)
    \/ BgFetch
    \/ BgFetchFail
    \/ BgWrite
    \/ BgWriteFail
    \/ BgFlush
    \/ \E r \in RequestIds, out \in LlmOutcomes : LlmReturn(r, out)
    \/ CatalogChange
    \/ HandleProductChange
    \/ HandleAppUninstalled
    \/ \E enabled \in BOOLEAN : SaveSettings(enabled)
    \/ Tick

Spec == Init /\ [][Next]_vars

(***************************************************************************)
(* SpecPair: two query requests of one shop in flight side by side, the    *)
(* shop's row synced before; the background sync and the clock run         *)
(***************************************************************************)
InitPair ==
    /\ now = 0
    /\ CacheIdle
    /\ RateIdle
    /\ kq = KeyIdle
    /\ shopRec = syncTaxonomy(NewRecord, 1, 0, TRUE)
    /\ catalog = 1
    /\ req = [r \in Slots |-> IdleRequest]
    /\ bg = IdleSync
    /\ webhook = IdleWebhook
    /\ resolvedWith = [key \in {} |-> 0]
    /\ flushedTax = 1
    /\ served = NoneServed
    /\ pf = PfIdle

NextPair ==
    \/ \E r \in Slots, body \in Bodies : Arrive(r, TRUE, body)
    \/ \E r \in Slots : Lookup(r)
    \/ \E r \in Slots, out \in LlmOutcomes : LlmReturn(r, out)
    \/ BgFetch
    \/ BgWrite
    \/ BgFlush
    \/ Tick

SpecPair == InitPair /\ [][NextPair]_vars

(***************************************************************************)
(* The post-processing pipeline of mapQueryToFilters, one stage per step   *)
(***************************************************************************)
\* Everything but pf before any call.
RestIdle ==
    /\ now = 0 /\ CacheIdle /\ RateIdle /\ kq = KeyIdle
    /\ shopRec = NoRecord
    /\ catalog = 1
    /\ req = [r \in Slots |-> IdleRequest]
    /\ bg = IdleSync /\ webhook = IdleWebhook
    /\ resolvedWith = [key \in {} |-> 0]
    /\ flushedTax = 0 /\ served = NoneServed

\* The bounds a price of the tool call carries: absent, a number, a numeric
\* string, a non-numeric string, NaN, null.
PriceBounds ==
    {Absent, JSNum(20), JSNum(80), JSNumStr(10), JSNumStr(50), JSBadStr, JSNaN, JSNull}
PlainBounds == {Absent, JSNum(20), JSNum(80), JSNull}
Prices(bounds) == {Absent} \cup {JSPrice(a, b) : a \in bounds, b \in bounds}
shoes == <<"s", "h", "o", "e", "s">>
RawFilter(price, productType) ==
    [EmptyFilter EXCEPT !.price = price, !.productType = productType]
\* The filter lists of the tool call: none, one filter with any price, two
\* filters with plain prices.
FilterInputs ==
    {<<>>}
    \cup {<<RawFilter(pr, ty)>> :
            pr \in Prices(PriceBounds), ty \in {Absent, JSNull, JSStr(<<>>), JSStr(shoes)}}
    \cup {<<RawFilter(p1, t1), RawFilter(p2, t2)>> :
            p1 \in Prices(PlainBounds), p2 \in Prices(PlainBounds),
            t1 \in {Absent, JSStr(shoes)}, t2 \in {Absent, JSStr(shoes)}}

\* The pipeline at one of its stages: fn is the call that ran last.
Pipeline(fn, raw, sanitized, merged, result) ==
    [fn |-> fn, raw |-> raw, sanitized |-> sanitized, merged |-> merged,
     result |-> result]
ToolCall(filters) == LlmOutcome("toolCall", JSArr(filters), "ok", Absent)

InitFilters ==
    /\ RestIdle
    /\ \E filters \in FilterInputs :
          pf = Pipeline("JSON.parse", filters, <<>>, <<>>, Thrown)

\* let processed = sanitizeFilters(filters, taxonomyContext)
Sanitize ==
    /\ pf.fn = "JSON.parse"
    /\ pf' = [pf EXCEPT !.fn = "sanitizeFilters", !.sanitized = sanitizeFilters(pf.raw)]
    /\ PureFrame
\* processed = mergeFilters(processed)
Merge ==
    /\ pf.fn = "sanitizeFilters"
    /\ pf' = [pf EXCEPT !.fn = "mergeFilters", !.merged = mergeFilters(pf.sanitized)]
    /\ PureFrame
\* processed = fuzzyCorrectFilters(processed, taxonomyContext) and the return
Return ==
    /\ pf.fn = "mergeFilters"
    /\ pf' = [pf EXCEPT !.fn = "mapQueryToFilters",
                        !.result = mapQueryToFilters(ToolCall(pf.raw), CatalogTaxonomy(1))]
    /\ PureFrame

NextFilters == Sanitize \/ Merge \/ Return
SpecFilters == InitFilters /\ [][NextFilters]_vars

(***************************************************************************)
(* fuzzyMatchValue and fuzzyCorrectFilters on their own                    *)
(***************************************************************************)
Bred == <<"B", "r", "e", "d">>
Size == <<"S", "i", "z", "e">>
Small == <<"S", "m", "a", "l", "l">>
\* The values the model may send for a dimension.
Candidates ==
    { <<"r", "e", "d">>, Red, <<"b", "r", "e">>, <<"b", "o", "a", "t", "s">>,
      <<"x", "y", "z">>, <<"r", "e">>, <<"b", "o", "o", "t">>, shoes,
      <<"b", "r", "e", "d", "s">> }
KnownWords == {Red, Bred, Boots, Shoes}
\* The vocabularies of a store: up to two known values.
Vocabularies ==
    {<<>>} \cup {<<a>> : a \in KnownWords} \cup {<<a, b>> : a \in KnownWords, b \in KnownWords}
\* The option names and values the model may send.
OptionNameCandidates ==
    {<<"c", "o", "l", "o", "r">>, <<"c", "o", "l", "r">>, Size, <<"s", "i", "z">>, <<"x", "y", "z">>}
OptionValueCandidates ==
    {<<"r", "e", "d">>, <<"s", "m", "a", "l">>, Small, <<"x", "y", "z">>}
ColorGroup == [name |-> Color, values |-> <<Red>>]
SizeGroup == [name |-> Size, values |-> <<Small>>]
GroupLists == {<<ColorGroup>>, <<ColorGroup, SizeGroup>>, <<SizeGroup, ColorGroup>>}

\* Filters with any of the dimensions: a type and a tag that are near
\* misses, exact or empty, an option with or without its name and value, a
\* price, an availability, a type that is a number.
FrameFilters ==
    { [EmptyFilter EXCEPT !.productType = ty, !.tag = tg, !.price = pr,
                          !.available = av, !.variantOption = vo] :
        ty \in {Absent, JSStr(<<"b", "o", "o", "t">>), JSStr(<<>>), JSNum(5)},
        tg \in {Absent, JSStr(<<"r", "e", "d">>)},
        pr \in {Absent, JSPrice(JSNum(1), Absent)},
        av \in {Absent, JSBool(FALSE), JSBool(TRUE)},
        vo \in {Absent, JSOption(JSStr(<<"c", "o", "l", "r">>), JSStr(<<"r", "e", "d">>)),
                JSOption(JSStr(Color), Absent), JSOption(Absent, JSStr(Red))} }
\* The filters of the lists of two.
PairFilters ==
    { [EmptyFilter EXCEPT !.productType = ty, !.productVendor = ve, !.price = pr,
                          !.available = av] :
        ty \in {Absent, JSStr(<<"b", "o", "o", "t">>)},
        ve \in {Absent, JSStr(shoes)},
        pr \in {Absent, JSPrice(Absent, JSNum(2))},
        av \in {Absent, JSBool(FALSE)} }
FrameLists ==
    {<<>>} \cup {<<f>> : f \in FrameFilters} \cup {<<f, g>> : f \in PairFilters, g \in PairFilters}
\* No taxonomy, one without vocabularies, one with types only, one with all.
FrameTaxonomies ==
    { Absent, EmptyTaxonomy,
      [EmptyTaxonomy EXCEPT !.productTypes = <<Shoes, Boots>>],
      [EmptyTaxonomy EXCEPT !.productTypes = <<Boots>>, !.vendors = <<Shoes>>,
                            !.tags = <<Bred, Red>>, !.variantOptions = <<ColorGroup>>] }

InitFuzzy ==
    /\ RestIdle
    /\ \/ \E filters \in FrameLists, taxonomy \in FrameTaxonomies :
             pf = [fn |-> "list", filters |-> filters, taxonomy |-> taxonomy]
       \/ \E value \in Candidates, knownValues \in Vocabularies :
             pf = [fn |-> "value", value |-> JSStr(value), knownValues |-> knownValues]
       \/ \E name \in OptionNameCandidates, value \in OptionValueCandidates,
             groups \in GroupLists :
             pf = [fn |-> "filters",
                   filters |-> <<OneFilter("variantOption",
                                           JSOption(JSStr(name), JSStr(value)))>>,
                   taxonomy |-> [EmptyTaxonomy EXCEPT !.variantOptions = groups]]

\* fuzzyMatchValue(value, knownValues)
FuzzyMatch ==
    /\ pf.fn = "value"
    /\ pf' = [fn |-> "fuzzyMatchValue", value |-> pf.value,
              knownValues |-> pf.knownValues,
              result |-> fuzzyMatchValue(pf.value, pf.knownValues)]
    /\ PureFrame
\* fuzzyCorrectFilters(filters, taxonomy)
FuzzyCorrect ==
    /\ pf.fn = "filters"
    /\ ~fuzzyCorrectThrows(pf.filters, pf.taxonomy)
    /\ pf' = [fn |-> "fuzzyCorrectFilters", filters |-> pf.filters,
              taxonomy |-> pf.taxonomy,
              result |-> fuzzyCorrectFilters(pf.filters, pf.taxonomy)]
    /\ PureFrame

\* fuzzyCorrectFilters(filters, taxonomy) on a list of any filters
FuzzyCorrectList ==
    /\ pf.fn = "list"
    /\ ~fuzzyCorrectThrows(pf.filters, pf.taxonomy)
    /\ pf' = [fn |-> "corrected", filters |-> pf.filters, taxonomy |-> pf.taxonomy,
              result |-> fuzzyCorrectFilters(pf.filters, pf.taxonomy)]
    /\ PureFrame

NextFuzzy == FuzzyMatch \/ FuzzyCorrect \/ FuzzyCorrectList
SpecFuzzy == InitFuzzy /\ [][NextFuzzy]_vars

(***************************************************************************)
(* parseTaxonomy on its own                                                *)
(***************************************************************************)
\* What a column of the shop's row may hold: null, the text a sync wrote,
\* a text that is not JSON.
ColumnKinds == {"missing", "json", "malformed"}
ColumnText(c, kind) ==
    CASE kind = "missing" -> JSNull
      [] kind = "json" -> JSONstringify(CatalogTaxonomy(1)[c])
      [] OTHER -> Malformed

\* The record parseTaxonomy is given: none, or a row with any columns.
InitParse ==
    /\ RestIdle
    /\ \/ pf = [fn |-> "shopRecord", shopRecord |-> NoRecord]
       \/ \E kinds \in [TaxonomyColumns -> ColumnKinds] :
             pf = [fn |-> "shopRecord",
                   shopRecord |-> [NewRecord EXCEPT !.columns =
                                     [c \in TaxonomyColumns |-> ColumnText(c, kinds[c])]]]

\* taxonomyContext = parseTaxonomy(shopRecord)
ParseTaxonomy ==
    /\ pf.fn = "shopRecord"
    /\ pf' = [fn |-> "parseTaxonomy", shopRecord |-> pf.shopRecord,
              threw |-> parseTaxonomyThrows(pf.shopRecord),
              result |-> parseTaxonomy(pf.shopRecord)]
    /\ PureFrame

NextParse == ParseTaxonomy
SpecParse == InitParse /\ [][NextParse]_vars

(***************************************************************************)
(* fetchAllPages                                                           *)
(***************************************************************************)
\* The cap on the entries of one type: 1000, scaled.
MAX_ENTRIES_PER_TYPE == 3
\* The calls of queryFn one run of the loop is followed for.
MaxCalls == 4
\* The items a page may carry.
MaxPageLen == 2
NullCursor == "null"
Cursors == {NullCursor, "c1"}
Items == {"x", "y"}
PageItems == UNION {[1..n -> Items] : n \in 0..MaxPageLen}
\* What queryFn(cursor) resolves to.
Pages ==
    [items : PageItems, hasNextPage : BOOLEAN, endCursor : Cursors]

\* fetchAllPages' locals before the loop; calls and pages are ghosts, the
\* cursors passed to queryFn and what it returned.
PagesStart ==
    [fn |-> "fetchAllPages", pc |-> "loop", all |-> <<>>, cursor |-> NullCursor,
     hasNext |-> TRUE, calls |-> <<>>, pages |-> <<>>, result |-> <<>>]

LoopCondition_NoCap(st) == st.hasNext
\* hasNext && all.length < MAX_ENTRIES_PER_TYPE
LoopCondition(st) == st.hasNext /\ Len(st.all) < MAX_ENTRIES_PER_TYPE
\* The body of the loop when queryFn(cursor) resolves to page.
LoopBody(st, page) ==
    [st EXCEPT !.all = @ \o page.items,
               !.hasNext = page.hasNextPage,
               !.cursor = page.endCursor,
               !.calls = Append(@, st.cursor),
               !.pages = Append(@, page)]
\* all.slice(0, MAX_ENTRIES_PER_TYPE)
slice(xs, n) == SubSeq(xs, 1, IF Len(xs) < n THEN Len(xs) ELSE n)

InitPages == RestIdle /\ pf = PagesStart

FetchPage(page) ==
    /\ pf.pc = "loop" /\ LoopCondition(pf)
    /\ Len(pf.calls) < MaxCalls
    /\ pf' = LoopBody(pf, page)
    /\ PureFrame
\* queryFn rejects: fetchAllPages rejects with it.
FetchPageFail ==
    /\ pf.pc = "loop" /\ LoopCondition(pf)
    /\ pf' = [pf EXCEPT !.pc = "threw", !.calls = Append(@, pf.cursor)]
    /\ PureFrame
ReturnPages ==
    /\ pf.pc = "loop" /\ ~LoopCondition(pf)
    /\ pf' = [pf EXCEPT !.pc = "done", !.result = slice(pf.all, MAX_ENTRIES_PER_TYPE)]
    /\ PureFrame

NextPages ==
    \/ \E page \in Pages : FetchPage(page)
    \/ FetchPageFail
    \/ ReturnPages
SpecPages == InitPages /\ [][NextPages]_vars

\* The same loop followed without bound: the ghosts calls and pages are not
\* kept, turn is the parity of the number of calls made.
Unlogged(st, turn) ==
    [fn |-> st.fn, pc |-> st.pc, all |-> st.all, cursor |-> st.cursor,
     hasNext |-> st.hasNext, calls |-> <<>>, pages |-> <<>>, result |-> st.result,
     turn |-> turn]

InitLoop == RestIdle /\ pf = Unlogged(PagesStart, 0)

\* One iteration: queryFn(cursor) resolves to page.
LoopStep(page) ==
    /\ pf.pc = "loop" /\ LoopCondition(pf)
    /\ pf' = Unlogged(LoopBody(pf, page), 1 - pf.turn)
    /\ PureFrame
LoopExit ==
    /\ pf.pc = "loop" /\ ~LoopCondition(pf)
    /\ pf' = [pf EXCEPT !.pc = "done", !.result = slice(pf.all, MAX_ENTRIES_PER_TYPE)]
    /\ PureFrame

NextLoop == (\E page \in Pages : LoopStep(page)) \/ LoopExit
\* Every call of queryFn resolves and the loop goes on after it.
SpecLoop == InitLoop /\ [][NextLoop]_vars /\ WF_vars(NextLoop)

(***************************************************************************)
(* The storefront script: filters to URL parameters                        *)
(***************************************************************************)
FilterDot == <<"f", "i", "l", "t", "e", "r", ".">>
ProductTypeKey == <<"f", "i", "l", "t", "e", "r", ".", "p", ".", "p", "r", "o", "d", "u", "c", "t", "_", "t", "y", "p", "e">>
VendorKey == <<"f", "i", "l", "t", "e", "r", ".", "p", ".", "v", "e", "n", "d", "o", "r">>
TagKey == <<"f", "i", "l", "t", "e", "r", ".", "p", ".", "t", "a", "g">>
AvailabilityKey == <<"f", "i", "l", "t", "e", "r", ".", "v", ".", "a", "v", "a", "i", "l", "a", "b", "i", "l", "i", "t", "y">>
PriceGteKey == <<"f", "i", "l", "t", "e", "r", ".", "v", ".", "p", "r", "i", "c", "e", ".", "g", "t", "e">>
PriceLteKey == <<"f", "i", "l", "t", "e", "r", ".", "v", ".", "p", "r", "i", "c", "e", ".", "l", "t", "e">>
OptionDot == <<"f", "i", "l", "t", "e", "r", ".", "v", ".", "o", "p", "t", "i", "o", "n", ".">>
\* One parameter of url.searchParams.
Param(key, value) == [key |-> key, value |-> value]
\* String(x), also what URLSearchParams.append does to its value.
String(x) ==
    CASE x.t = "number" -> JSNumStr(x.v)
      [] x.t = "boolean" -> JSStr(IF x.v THEN <<"t", "r", "u", "e">>
                                         ELSE <<"f", "a", "l", "s", "e">>)
      [] OTHER -> x

\* The callback of appendFilterParams' forEach: the parameters one filter
\* appends, in order.
appendOne(filter) ==
    (IF Truthy(filter.productType)
     THEN <<Param(ProductTypeKey, String(filter.productType))>> ELSE <<>>)
    \o (IF Truthy(filter.productVendor)
        THEN <<Param(VendorKey, String(filter.productVendor))>> ELSE <<>>)
    \o (IF Truthy(filter.tag) THEN <<Param(TagKey, String(filter.tag))>> ELSE <<>>)
    \o (IF filter.available = JSBool(TRUE) THEN <<Param(AvailabilityKey, JSStr(<<"1">>))>>
        ELSE IF filter.available = JSBool(FALSE)
        THEN <<Param(AvailabilityKey, JSStr(<<"0">>))>> ELSE <<>>)
    \o (IF Truthy(filter.price) /\ filter.price.min # Absent /\ filter.price.min # JSNull
        THEN <<Param(PriceGteKey, String(filter.price.min))>> ELSE <<>>)
    \o (IF Truthy(filter.price) /\ filter.price.max # Absent /\ filter.price.max # JSNull
        THEN <<Param(PriceLteKey, String(filter.price.max))>> ELSE <<>>)
    \o (IF Truthy(filter.variantOption) /\ Truthy(filter.variantOption.name)
           /\ Truthy(filter.variantOption.value)
        THEN <<Param(OptionDot \o toLowerCase(filter.variantOption.name.v),
                     String(filter.variantOption.value))>>
        ELSE <<>>)
\* appendFilterParams(url, filters): url.searchParams afterwards.
RECURSIVE appendFilterParams(_, _)
appendFilterParams(params, filters) ==
    IF filters = <<>> THEN params
    ELSE appendFilterParams(params \o appendOne(Head(filters)), Tail(filters))
applyFiltersViaNavigation_KeepAll(params, filters) ==
    appendFilterParams(params, filters)
\* applyFiltersViaNavigation(filters, query): the parameters of the URL it
\* navigates to, from those of window.location.href.
applyFiltersViaNavigation(params, filters) ==
    appendFilterParams(SelectSeq(params, LAMBDA q : ~startsWith(q.key, FilterDot)), filters)

\* The parameters the page's URL may carry before.
PageParams ==
    { Param(TagKey, JSStr(<<"o", "l", "d">>)),
      Param(<<"s", "o", "r", "t", "_", "b", "y">>, JSStr(<<"x">>)),
      Param(<<"f", "i", "l", "t", "e", "r", "s">>, JSStr(<<"y">>)) }
PageUrls == {<<>>} \cup {<<a>> : a \in PageParams} \cup {<<a, b>> : a \in PageParams, b \in PageParams}
\* The filters of the response: each dimension absent or present.
UrlFilters ==
    {[productType |-> ty, productVendor |-> ve, tag |-> ta, available |-> av,
      price |-> pr, variantOption |-> vo] :
        ty \in {Absent, JSStr(Shoes), JSStr(<<>>)}, ve \in {Absent, JSStr(<<"v">>)},
        ta \in {Absent, JSStr(<<"a">>)}, av \in {Absent, JSBool(TRUE), JSBool(FALSE)},
        pr \in {Absent, JSPrice(JSNum(20), Absent), JSPrice(JSNull, JSNum(80)),
                JSPrice(JSNum(0), JSNum(80))},
        vo \in {Absent, JSOption(JSStr(Color), JSStr(Red)), JSOption(JSStr(Color), Absent),
                JSOption(Absent, JSStr(Red))}}
UrlFilterLists ==
    {<<>>} \cup {<<f>> : f \in UrlFilters}
    \cup {<<OneFilter("tag", JSStr(<<"a">>)), f>> :
            f \in {OneFilter("tag", JSStr(<<"b">>)), OneFilter("price", JSPrice(JSNum(20), JSNum(80)))}}

InitUrl ==
    /\ RestIdle
    /\ \E params \in PageUrls, filters \in UrlFilterLists :
          pf = [fn |-> "applyFilters", params |-> params, filters |-> filters, result |-> <<>>]

\* appendFilterParams(url, filters) on a URL that carries params
AppendFilterParams ==
    /\ pf.fn = "applyFilters"
    /\ pf' = [pf EXCEPT !.fn = "appendFilterParams",
                        !.result = appendFilterParams(pf.params, pf.filters)]
    /\ PureFrame
\* applyFiltersViaNavigation(filters, query) on a collection page
ApplyFiltersViaNavigation ==
    /\ pf.fn = "applyFilters"
    /\ pf' = [pf EXCEPT !.fn = "applyFiltersViaNavigation",
                        !.result = applyFiltersViaNavigation(pf.params, pf.filters)]
    /\ PureFrame

NextUrl == AppendFilterParams \/ ApplyFiltersViaNavigation
SpecUrl == InitUrl /\ [][NextUrl]_vars

(***************************************************************************)
(* The validation of the request body on its own                           *)
(***************************************************************************)
\* The strings of up to n of the characters a, A and blank.
RECURSIVE QueryStrings(_)
QueryStrings(n) ==
    IF n = 0 THEN {<<>>}
    ELSE QueryStrings(n - 1) \cup
         {Append(q, c) : q \in {p \in QueryStrings(n - 1) : Len(p) = n - 1},
                         c \in {"a", "A", " "}}

\* The body of the request: unparseable, without a query, with a query
\* that is null, a number, or a string of up to one character over the limit.
InitQuery ==
    /\ RestIdle
    /\ \/ \E body \in {NoBody, Body(Absent), Body(JSNull), Body(JSNum(0)), Body(JSNum(5))} :
             pf = [fn |-> "body", body |-> body, error |-> ""]
       \/ \E q \in QueryStrings(QueryLimit + 1) :
             pf = [fn |-> "body", body |-> Body(JSStr(q)), error |-> ""]

\* Lines 91-115 of handleQueryRequest
ValidateBody ==
    /\ pf.fn = "body"
    /\ pf' = [pf EXCEPT !.fn = "handleQueryRequest", !.error = QueryError(pf.body)]
    /\ PureFrame

NextQuery == ValidateBody
SpecQuery == InitQuery /\ [][NextQuery]_vars

(***************************************************************************)
(* Two requests and their cache keys                                       *)
(***************************************************************************)
\* What a request's key is made from: the session's shop, and the
\* collection handle and the query of the body, which the route does not
\* check for colons.
KeyTriples ==
    [shop : Shops,
     handle : {NoHandle, <<"b">>, <<"b", ":", ":", "c">>},
     query : {<<"d">>, <<"D", " ">>, <<"c", ":", ":", "d">>}]

InitKeys ==
    /\ RestIdle
    /\ \E stored \in KeyTriples, asked \in KeyTriples :
          pf = [fn |-> "requests", stored |-> stored, asked |-> asked,
                storedKey |-> <<>>, askedKey |-> <<>>, hit |-> FALSE]

\* cacheSet(cacheKey(...), value) of one request on an empty cache, then
\* cacheGet(cacheKey(...)) of the other.
SetThenGet ==
    /\ pf.fn = "requests"
    /\ LET storedKey == cacheKey(pf.stored.shop, pf.stored.handle, pf.stored.query)
           askedKey == cacheKey(pf.asked.shop, pf.asked.handle, pf.asked.query)
           c == cacheSet(<<>>, storedKey, "v", 0)
       IN  pf' = [pf EXCEPT !.fn = "cacheGet", !.storedKey = storedKey,
                            !.askedKey = askedKey,
                            !.hit = cacheGet(c, askedKey, 0).hit]
    /\ PureFrame

NextKeys == SetThenGet
SpecKeys == InitKeys /\ [][NextKeys]_vars

\* C9: once a taxonomy sync of the shop has completed and its cacheFlushShop
\* has run, every cache hit served for the shop returns a result that was
\* resolved against the taxonomy of that sync or a later one, also when a
\* request read the old taxonomy before the sync and stored its result after
\* the flush.
C9_FlushPreventsStaleHits ==
    served.cacheHit => served.hitTax >= served.flushedAtHit

\* An answered resolution whose result has no filters and no search query.
EmptyResult(s) ==
    /\ s.llm.kind # "none"
    /\ s.response.error = JSNull
    /\ Len(s.response.filters.v) = 0
    /\ ~Truthy(s.response.searchQuery)

\* C10: every entry of the query cache has a non-empty filters array or a
\* non-empty searchQuery, and a step that answers with a result without
\* filters and without searchQuery (the timeout result and the no-tool-call
\* result among them) writes nothing to the cache.
C10_StorePolicy ==
    /\ [](\A i \in 1..Len(cache) :
            Len(cache[i].value.filters) > 0 \/ Truthy(cache[i].value.searchQuery))
    /\ [][EmptyResult(served') => cache' = cache]_vars

\* The model returned filters, sanitising dropped them all, and the answer
\* of the request was not stored.
C10_Witness ==
    /\ served.llm.kind = "toolCall"
    /\ served.llm.filters # Absent
    /\ Len(served.llm.filters.v) > 0
    /\ EmptyResult(served)
    /\ served.key \notin KeysOf(cache)

\* The responses that turn a request away: unauthorized caller, rate limit,
\* invalid body, missing, empty or oversized query, disabled shop.
Rejections ==
    { "Unauthorized",
      "Too many requests. Please wait a moment and try again.",
      "Invalid request body",
      "Please enter a search query",
      "Query is too long. Please keep it under 500 characters.",
      "AI Filter is currently disabled for this store." }
Rejected(s) ==
    /\ s.response.status = 200
    /\ s.response.error # JSNull
    /\ s.response.error.v \in Rejections
\* What a request does from the taxonomy check on.
Effects == {"sync", "bgSync", "cacheGet", "llm", "cacheSet", "analytics"}
Events(s) == {s.trace[i] : i \in 1..Len(s.trace)}

\* C11: a request that is turned away (unauthorized, rate-limited, invalid
\* body, missing, empty or oversized query, disabled shop) has started no
\* taxonomy sync, read and written no cache entry, made no LLM call and
\* started no analytics write, and the step that turns it away leaves the
\* cache and the background sync as they are; a request whose shop row says
\* disabled is turned away, so no cache hit is served to it.
C11_RejectedDoesNothing ==
    /\ [](Rejected(served) =>
            /\ Events(served) \cap Effects = {}
            /\ served.llm = NoLlm
            /\ ~served.analytics
            /\ ~served.cacheHit)
    /\ [](served.seen.exists /\ ~served.seen.enabled => Rejected(served))
    /\ [][Rejected(served') => cache' = cache /\ bg' = bg /\ shopRec' = shopRec]_vars

\* A disabled shop is turned away while the cache holds a live entry for its
\* query.
C11_Witness ==
    /\ Rejected(served)
    /\ served.seen.exists
    /\ ~served.seen.enabled
    /\ cacheGet(cache, cacheKey(Shop, served.body.collectionHandle, served.body.query.v),
                now).hit

\* How often the request did e.
Count(trace, e) == Cardinality({i \in 1..Len(trace) : trace[i] = e})

\* C12: a request answered from the cache has made no LLM call; a request
\* that missed the cache has made exactly one, while it waits for it and
\* when it is answered, however the call ended; the step in which the call
\* ends answers the request.
C12_OneLlmCall ==
    /\ [](served.cacheHit => Count(served.trace, "llm") = 0 /\ served.llm = NoLlm)
    /\ [](Count(served.trace, "cacheGet") = 1 /\ ~served.cacheHit =>
            Count(served.trace, "llm") = 1 /\ served.llm # NoLlm)
    /\ [](\A r \in RequestIds :
            /\ req[r].pc = "llm" => Count(req[r].trace, "llm") = 1
            /\ req[r].pc # "llm" => Count(req[r].trace, "llm") = 0)
    /\ [][\A r \in RequestIds :
            req[r].pc = "llm" /\ req'[r] # req[r] =>
                req'[r] = IdleRequest /\ served'.llm # NoLlm]_vars

\* A request whose one LLM call failed is answered with the error.
C12_Witness ==
    /\ served.llm.kind = "error"
    /\ Count(served.trace, "llm") = 1
    /\ served.response = SomethingWentWrong

\* The row has no taxonomy and no sync time: it was never synced.
NeverSynced(rec) ==
    /\ rec.exists
    /\ rec.taxonomySyncedAt = JSNull
    /\ \A c \in TaxonomyColumns : rec.columns[c] = JSNull
\* Where the request did e first, 0 if it did not.
Pos(trace, e) ==
    IF Count(trace, e) = 0 THEN 0
    ELSE CHOOSE i \in 1..Len(trace) :
            trace[i] = e /\ \A j \in 1..(i - 1) : trace[j] # e
Before(trace, e, f) == Pos(trace, e) > 0 /\ Pos(trace, e) < Pos(trace, f)

\* C13: a request that finds the shop enabled and never synced runs the
\* taxonomy sync inline; when it comes to the cache check the sync has failed
\* or has succeeded with the flush and the reload done, all before the cache
\* check and the LLM call; and when the sync succeeded, the taxonomy context
\* its resolution used is the one that sync wrote.
C13_InlineSyncFirst ==
    NeverSynced(served.seen) /\ ~Disabled(served.seen) =>
        /\ Count(served.trace, "sync") = 1
        /\ Count(served.trace, "cacheGet") = 1 =>
              /\ Before(served.trace, "sync", "cacheGet")
              /\ \/ Before(served.trace, "syncFail", "cacheGet")
                 \/ /\ Before(served.trace, "syncOk", "flush")
                    /\ \/ Before(served.trace, "flush", "reload")
                       \/ Before(served.trace, "flush", "reloadFail")
                    /\ \/ Before(served.trace, "reload", "cacheGet")
                       \/ Before(served.trace, "reloadFail", "cacheGet")
        /\ Count(served.trace, "syncOk") = 1 /\ Count(served.trace, "llm") = 1 =>
              served.taxonomyContext = CatalogTaxonomy(served.fetched)

\* The row holds taxonomy data of an earlier sync.
HasTaxonomy(rec) ==
    /\ rec.exists
    /\ \A c \in TaxonomyColumns : rec.columns[c] # JSNull
\* The request of slot r after a step: in flight, or just answered.
After(r) == IF req[r].pc = "idle" THEN served ELSE req[r]
\* The step runs the taxonomy check of slot r (lines 124-159) on an enabled
\* row with taxonomy data that is stale at that time.
ChecksStaleTaxonomy(r) ==
    /\ req[r].pc \in {"lookup", "create"}
    /\ After(r)'.seen.exists
    /\ ~Disabled(After(r)'.seen)
    /\ HasTaxonomy(After(r)'.seen)
    /\ isTaxonomyStale(After(r)'.seen, now)

C15_FailedSyncEmptyContext ==
    Count(served.trace, "syncFail") = 1 =>
        /\ Count(served.trace, "cacheGet") = 1
        /\ served.response.status = 200
        /\ Count(served.trace, "llm") = 1 => served.taxonomyContext = EmptyTaxonomy

\* C16: a step in which syncTaxonomy throws, at a read of the catalog or at
\* its update, leaves the shop row as it is, and the caller gets the
\* failure: the inline caller goes on in its catch, the background caller
\* ends without flushing, the cache as it is.
C16_FailedSyncNoPartialEffect ==
    [][/\ \A r \in RequestIds :
            req[r].pc \in {"syncFetch", "syncWrite"}
                /\ Count(After(r)'.trace, "syncFail") = 1 => shopRec' = shopRec
       /\ served'.bgFailed =>
            /\ bg.pc \in {"fetch", "write"}
            /\ bg' = IdleSync
            /\ shopRec' = shopRec
            /\ cache' = cache
            /\ flushedTax' = flushedTax]_vars

\* A background sync fails while the row holds the taxonomy of an older
\* catalog version and the cache holds an entry of the shop.
C16_Witness ==
    /\ served.bgFailed
    /\ HasTaxonomy(shopRec)
    /\ VersionOf(parseTaxonomy(shopRec)) < catalog
    /\ Len(cache) > 0

\* The taxonomy contexts a resolution may get.
Contexts == {EmptyTaxonomy} \cup {CatalogTaxonomy(v) : v \in 1..MaxCatalog}
LlmFailures == {"error", "badJson", "badArguments"}
\* mapQueryToFilters returns the timeout result for a call the timer aborted
\* and throws on every other failure of the transport or of a parse.
Classifies ==
    \A out \in LlmOutcomes, taxonomyContext \in Contexts :
        /\ out.kind = "abort" =>
              mapQueryToFilters(out, taxonomyContext) = Result(<<>>, TookTooLong, Absent)
        /\ out.kind \in LlmFailures => mapQueryToFilters(out, taxonomyContext).threw
TimeoutResponse(s) ==
    /\ s.response.status = 200
    /\ s.response.error = JSNull
    /\ s.response.filters = JSArr(<<>>)
    /\ s.response.explanation = JSStr(TookTooLong)

C18_MalformedOutputNotAnError ==
    served.llm.kind \in {"noToolCall", "badArguments"} =>
        /\ ~mapQueryToFilters(served.llm, served.taxonomyContext).threw
        /\ mapQueryToFilters(served.llm, served.taxonomyContext) =
              Result(<<>>, CouldNotProcess, Absent)

\* An internal step of the answered request failed: the reload after the
\* sync rejected or found no row, or the resolution threw.
InternalFailure(s) ==
    \/ Count(s.trace, "reloadFail") = 1
    \/ Count(s.trace, "reload") = 1 /\ ~s.shopRecord.exists
    \/ s.llm.kind \in LlmFailures

\* C19: every answer to a query request has the normal status, no failure
\* leaves the handler as an exception, and the answer of a request of
\* which an internal step failed carries an error message.
C19_CatchAll ==
    /\ served.response.status \in {0, 200}
    /\ InternalFailure(served) => served.response.error # JSNull

\* C20: every request that reached the cache check has started the
\* analytics write by the time it is answered, whether it was a cache hit, a
\* resolution, a timeout or a resolution error, and it is answered in the
\* step that starts the write.
C20_AnalyticsAlwaysAttempted ==
    Count(served.trace, "cacheGet") = 1 =>
        /\ served.analytics
        /\ Count(served.trace, "analytics") = 1
        /\ served.trace[Len(served.trace)] = "analytics"

\* C21: two requests that wait for the LLM at the same time never wait for
\* the same cache key: of two concurrent requests that both missed the
\* cache for a key, at most one calls the LLM.
C21_Coalescing ==
    \A r1, r2 \in Slots :
        r1 # r2 /\ req[r1].pc = "llm" /\ req[r2].pc = "llm" =>
            req[r1].key # req[r2].key

IsNumber(x) == x.t = "number"
\* A price as the specification describes a sanitized one: an object with a
\* bound, its bounds numbers, min <= max when it has both.
NumericPrice(price) ==
    /\ price.t = "object"
    /\ price.min # Absent \/ price.max # Absent
    /\ price.min # Absent => IsNumber(price.min)
    /\ price.max # Absent => IsNumber(price.max)
    /\ price.min # Absent /\ price.max # Absent /\ IsNumber(price.min) /\ IsNumber(price.max)
          => price.min.v <= price.max.v

\* C22: for every filter with a price whose min and max are each absent, a
\* number, a numeric string, a non-numeric string, NaN or null,
\* sanitizeFilters yields a price whose present bounds are all numbers with
\* min <= max, and no price when both bounds end up absent.
C22_PriceSanitized ==
    pf.fn = "sanitizeFilters" =>
        \A i \in 1..Len(pf.sanitized) :
            pf.sanitized[i].price # Absent => NumericPrice(pf.sanitized[i].price)

\* C23: any price in the filters mapQueryToFilters returns (after sanitize,
\* merge and fuzzy correction) that has both a min and a max, has min <= max.
C23_PriceOrdered ==
    pf.fn = "mapQueryToFilters" =>
        \A i \in 1..Len(pf.result.filters) :
            LET price == pf.result.filters[i].price
            IN  price # Absent /\ IsNumber(price.min) /\ IsNumber(price.max)
                    => price.min.v <= price.max.v

\* A dimension that carries a value: not undefined, null or the empty string.
Populated(x) == x # Absent /\ x # JSNull /\ x # JSStr(<<>>)

\* C24: every filter in the result of mapQueryToFilters has at least one
\* populated dimension; a filter with none (an empty object, only null,
\* undefined or empty values, only a price that sanitization removed) is
\* dropped.
C24_NoEmptyDescriptors ==
    pf.fn = "mapQueryToFilters" =>
        \A i \in 1..Len(pf.result.filters) :
            \E k \in FilterKeys : Populated(pf.result.filters[i][k])

\* A filter without its price.
WithoutPrice(f) == [f EXCEPT !.price = Absent]
\* A filter with a dimension other than price that is not undefined or null.
HasOtherDimension(f) == MeaningfulKeys(f) \ {"price"} # {}
\* The filters of a list that have such a dimension, in order, without price.
OtherDimensions(filters) ==
    SelectSeq([i \in 1..Len(filters) |-> WithoutPrice(filters[i])], HasOtherDimension)
\* The bounds named b ("min" or "max") of the prices of a list.
BoundsOf(filters, b) ==
    {filters[i].price[b] : i \in {j \in 1..Len(filters) : filters[j].price # Absent}}
        \ {Absent}
\* bound is the least (sign 1) or greatest (sign -1) of a non-empty set of
\* bounds, and absent for the empty set.
Extreme(bound, bounds, sign) ==
    IF bounds = {} THEN bound = Absent
    ELSE bound \in bounds
         /\ \A x \in bounds : sign * ToNumber(bound) <= sign * ToNumber(x)

\* C25: mergeFilters of a sanitized list returns a list in which at most one
\* filter carries a price, whose min is the least of the input mins and whose
\* max is the greatest of the input maxes (price-only and mixed filters
\* alike); every other dimension of every input filter is in the output
\* unchanged.
C25_PriceMerge ==
    pf.fn = "mergeFilters" =>
        LET priced == {i \in 1..Len(pf.merged) : pf.merged[i].price # Absent}
            mins == BoundsOf(pf.sanitized, "min")
            maxes == BoundsOf(pf.sanitized, "max")
        IN  /\ Cardinality(priced) <= 1
            /\ priced = {} <=> mins \cup maxes = {}
            /\ \A i \in priced :
                  /\ Extreme(pf.merged[i].price.min, mins, 1)
                  /\ Extreme(pf.merged[i].price.max, maxes, -1)
            /\ OtherDimensions(pf.merged) = OtherDimensions(pf.sanitized)
\* {price: {min: 20}} and {price: {max: 80}} were merged into one
\* {price: {min: 20, max: 80}}.
C25_Witness ==
    /\ pf.fn = "mergeFilters"
    /\ pf.sanitized = <<RawFilter(JSPrice(JSNum(20), Absent), Absent),
                        RawFilter(JSPrice(Absent, JSNum(80)), Absent)>>
    /\ pf.merged = <<RawFilter(JSPrice(JSNum(20), JSNum(80)), Absent)>>

\* The positions of the known values that match the candidate exactly (case
\* aside), by substring, approximately.
ExactMatches(value, knownValues) ==
    {i \in 1..Len(knownValues) : toLowerCase(knownValues[i]) = toLowerCase(value)}
SubstringMatches(value, knownValues) ==
    {i \in 1..Len(knownValues) : isSubstringMatch(value, knownValues[i])}
ApproximateMatches(value, knownValues) ==
    {i \in 1..Len(knownValues) : AboveThreshold(value, knownValues[i])}
\* result is one of the known values at the positions given.
KnownAt(result, knownValues, positions) ==
    \E i \in positions : result = JSStr(knownValues[i])

\* C26: fuzzyMatchValue returns the known value that equals the candidate
\* case-insensitively whenever there is one, even if an earlier known value
\* substring-matches; without an exact match a substring match, without
\* either an approximate match, and without any match the candidate itself.
C26_MatchPrecedence ==
    pf.fn = "fuzzyMatchValue" =>
        LET exact == ExactMatches(pf.value.v, pf.knownValues)
            sub == SubstringMatches(pf.value.v, pf.knownValues)
            approx == ApproximateMatches(pf.value.v, pf.knownValues)
        IN  IF exact # {} THEN KnownAt(pf.result, pf.knownValues, exact)
            ELSE IF sub # {} THEN KnownAt(pf.result, pf.knownValues, sub)
            ELSE IF approx # {} THEN KnownAt(pf.result, pf.knownValues, approx)
            ELSE pf.result = pf.value
\* "red" against <<"Bred", "Red">>: the first known value substring-matches,
\* the second is the exact match and is returned.
C26_Witness ==
    /\ pf.fn = "fuzzyMatchValue"
    /\ pf.value = JSStr(<<"r", "e", "d">>)
    /\ pf.knownValues = <<Bred, Red>>
    /\ pf.result = JSStr(Red)

\* The elements of a list.
Range(xs) == {xs[i] : i \in 1..Len(xs)}
\* The option groups whose name equals name, case aside.
MatchedGroups(name, variantOptions) ==
    {i \in 1..Len(variantOptions) :
        toLowerCase(variantOptions[i].name) = toLowerCase(name)}

\* C27: fuzzyCorrectFilters corrects variantOption.name against the known
\* option names, then variantOption.value against the values of the group
\* whose name equals the corrected name only: the value is never replaced by
\* a value of another group, and is unchanged when the corrected name matches
\* no group.
C27_TwoStageVariant ==
    pf.fn = "fuzzyCorrectFilters" =>
        LET vo == pf.filters[1].variantOption
            res == pf.result[1].variantOption
            groups == pf.taxonomy.variantOptions
            matched == MatchedGroups(res.name.v, groups)
        IN  /\ res.name = fuzzyMatchValue(vo.name, OptionNames(groups))
            /\ matched = {} => res.value = vo.value
            /\ matched # {} =>
                  \E i \in matched : res.value = fuzzyMatchValue(vo.value, groups[i].values)
            /\ res.value # vo.value =>
                  \E i \in matched : res.value.v \in Range(groups[i].values)
\* {name: "siz", value: "red"} with the groups Color (Red) and Size (Small):
\* the name becomes "Size" and the value stays "red", though Color has "Red".
C27_Witness ==
    /\ pf.fn = "fuzzyCorrectFilters"
    /\ pf.filters[1].variantOption = JSOption(JSStr(<<"s", "i", "z">>), JSStr(<<"r", "e", "d">>))
    /\ pf.taxonomy.variantOptions = <<ColorGroup, SizeGroup>>
    /\ pf.result[1].variantOption = JSOption(JSStr(Size), JSStr(<<"r", "e", "d">>))

\* The columns of a record that hold a text that is not JSON.
MalformedColumns(shopRecord) ==
    {c \in TaxonomyColumns : shopRecord.columns[c] = Malformed}

\* C28: parseTaxonomy never throws, whatever the five columns of the record
\* hold, and when any one column fails to parse it returns the all-empty
\* context, never a partly populated one; without a failure every column is
\* its parsed text, or its empty default when the column is missing.
C28_ParseAllOrNothing ==
    pf.fn = "parseTaxonomy" =>
        /\ ~pf.threw
        /\ IF ~pf.shopRecord.exists \/ MalformedColumns(pf.shopRecord) # {}
           THEN pf.result = EmptyTaxonomy
           ELSE \A c \in TaxonomyColumns :
                   pf.result[c] = IF pf.shopRecord.columns[c] = JSNull
                                  THEN EmptyTaxonomy[c]
                                  ELSE CatalogTaxonomy(1)[c]
\* One column is malformed, the four others are well-formed, and the context
\* returned is empty.
C28_Witness ==
    /\ pf.fn = "parseTaxonomy"
    /\ MalformedColumns(pf.shopRecord) = {"tags"}
    /\ \A c \in TaxonomyColumns \ {"tags"} : pf.shopRecord.columns[c] # JSNull
    /\ pf.result = EmptyTaxonomy

\* C29: a cacheSet with a key the cache already holds, also when the cache
\* is at capacity, removes no other entry and leaves the size as it was; the
\* rewritten entry is the most recently used one and carries the time of
\* the call.
C29_RewriteEvictsNothing ==
    [][ cacheOp'.op = "set" /\ cacheOp'.key \in KeysOf(cache)
        => /\ Len(cache') = Len(cache)
           /\ MapDelete(cache', cacheOp'.key) = MapDelete(cache, cacheOp'.key)
           /\ cache'[Len(cache')].key = cacheOp'.key
           /\ cache'[Len(cache')].timestamp = now'
           /\ recency'[Len(recency')] = cacheOp'.key ]_vars
\* A key of a full cache has been set again, later than the other entries
\* were written: the cache is still full and the rewritten entry is last.
C29_Witness ==
    /\ cacheOp.op = "set" /\ cacheOp.case = "rewriteFull"
    /\ Len(cache) = MAX_ENTRIES
    /\ cache[Len(cache)].key = cacheOp.key
    /\ cache[Len(cache)].timestamp = now
    /\ \A i \in 1..(Len(cache) - 1) : cache[i].timestamp < now

\* The items of the first n pages, in the order fetched.
RECURSIVE ItemsOf(_, _)
ItemsOf(pages, n) ==
    IF n = 0 THEN <<>> ELSE ItemsOf(pages, n - 1) \o pages[n].items

\* C30: fetchAllPages returns at most 1000 items (the cap); its first request
\* carries a null cursor, a further request is made only when the page
\* before reported hasNextPage and fewer items than the cap had been
\* accumulated, and carries that page's endCursor; the items returned are
\* those fetched, in fetch order, cut to the first 1000.
C30_Pagination ==
    /\ \A i \in 1..Len(pf.calls) :
          IF i = 1 THEN pf.calls[i] = NullCursor
          ELSE /\ pf.pages[i - 1].hasNextPage
               /\ Len(ItemsOf(pf.pages, i - 1)) < MAX_ENTRIES_PER_TYPE
               /\ pf.calls[i] = pf.pages[i - 1].endCursor
    /\ pf.pc = "done" =>
          /\ Len(pf.result) <= MAX_ENTRIES_PER_TYPE
          /\ pf.result = slice(ItemsOf(pf.pages, Len(pf.pages)), MAX_ENTRIES_PER_TYPE)
          /\ Len(pf.pages) = Len(pf.calls)
\* Two pages of two items were fetched, the second with the first's cursor
\* though a third was announced, and the first three items were returned.
C30_Witness ==
    /\ pf.pc = "done"
    /\ pf.calls = <<NullCursor, "c1">>
    /\ Len(pf.all) = 4 /\ pf.hasNext
    /\ pf.result = <<"x", "y", "y">>

\* The positions of the known values that contain the candidate or are
\* contained in it, case aside.
Containing(value, knownValues) ==
    {i \in 1..Len(knownValues) :
        \/ includes(toLowerCase(knownValues[i]), toLowerCase(value))
        \/ includes(toLowerCase(value), toLowerCase(knownValues[i]))}

\* C31: the substring stage of fuzzyMatchValue never matches a candidate of
\* fewer than 3 characters; for a candidate of 3 or more without an exact
\* match it returns the first known value, in vocabulary order, that
\* contains the candidate or is contained in it.
C31_SubstringStage ==
    pf.fn = "fuzzyMatchValue" /\ ExactMatches(pf.value.v, pf.knownValues) = {} =>
        LET containing == Containing(pf.value.v, pf.knownValues)
        IN  /\ Len(pf.value.v) >= 3 /\ containing # {} =>
                  pf.result = JSStr(pf.knownValues[FirstIndex(containing)])
            /\ Len(pf.value.v) < 3
               /\ ApproximateMatches(pf.value.v, pf.knownValues) = {} =>
                  pf.result = pf.value
\* "breds" contains both "Red" and "Bred"; with "Red" first in the
\* vocabulary, "Red" is returned.
C31_Witness ==
    /\ pf.fn = "fuzzyMatchValue"
    /\ pf.value = JSStr(<<"b", "r", "e", "d", "s">>)
    /\ pf.knownValues = <<Red, Bred>>
    /\ pf.result = JSStr(Red)

\* The text of a number, as a URL parameter carries it.
NumberText(x) == JSNumStr(x.v)
\* The mapping table: the parameters a filter stands for.
TableOf(filter) ==
    (IF Populated(filter.productType) THEN {Param(ProductTypeKey, filter.productType)} ELSE {})
    \cup (IF Populated(filter.productVendor) THEN {Param(VendorKey, filter.productVendor)} ELSE {})
    \cup (IF Populated(filter.tag) THEN {Param(TagKey, filter.tag)} ELSE {})
    \cup (IF filter.available = JSBool(TRUE) THEN {Param(AvailabilityKey, JSStr(<<"1">>))} ELSE {})
    \cup (IF filter.available = JSBool(FALSE) THEN {Param(AvailabilityKey, JSStr(<<"0">>))} ELSE {})
    \cup (IF Populated(filter.price) /\ Populated(filter.price.min)
          THEN {Param(PriceGteKey, NumberText(filter.price.min))} ELSE {})
    \cup (IF Populated(filter.price) /\ Populated(filter.price.max)
          THEN {Param(PriceLteKey, NumberText(filter.price.max))} ELSE {})
    \cup (IF Populated(filter.variantOption) /\ Populated(filter.variantOption.name)
             /\ Populated(filter.variantOption.value)
          THEN {Param(OptionDot \o toLowerCase(filter.variantOption.name.v),
                      filter.variantOption.value)}
          ELSE {})
RECURSIVE TableSize(_)
TableSize(filters) ==
    IF filters = <<>> THEN 0
    ELSE Cardinality(TableOf(Head(filters))) + TableSize(Tail(filters))

\* C32: appendFilterParams appends exactly the parameters of the mapping
\* table for the dimensions that are present and none for one that is
\* absent (an option only when it has both a name and a value); navigation
\* on a collection page first removes every filter.* parameter of the URL
\* and keeps the other parameters.
C32_UrlMapping ==
    pf.fn \in {"appendFilterParams", "applyFiltersViaNavigation"} =>
        LET kept == IF pf.fn = "appendFilterParams" THEN pf.params
                    ELSE SelectSeq(pf.params, LAMBDA q : SubSeq(q.key, 1, 7) # FilterDot)
            appended == SubSeq(pf.result, Len(kept) + 1, Len(pf.result))
        IN  /\ Len(pf.result) >= Len(kept)
            /\ SubSeq(pf.result, 1, Len(kept)) = kept
            /\ Range(appended) = UNION {TableOf(pf.filters[i]) : i \in 1..Len(pf.filters)}
            /\ Len(appended) = TableSize(pf.filters)
\* A collection page with an old tag filter and a sort order, and a filter
\* with every dimension: the sort order is kept, the old tag is gone and the
\* seven parameters of the filter follow.
C32_Witness ==
    /\ pf.fn = "applyFiltersViaNavigation"
    /\ pf.params = <<Param(TagKey, JSStr(<<"o", "l", "d">>)),
                     Param(<<"s", "o", "r", "t", "_", "b", "y">>, JSStr(<<"x">>))>>
    /\ Len(pf.filters) = 1 /\ Cardinality(TableOf(pf.filters[1])) = 7
    /\ Len(pf.result) = 8
    /\ pf.result[1].key = <<"s", "o", "r", "t", "_", "b", "y">>
    /\ pf.result[8] = Param(OptionDot \o <<"c", "o", "l", "o", "r">>, JSStr(Red))

\* A query made of white space only, the empty one included.
Blank(q) == \A i \in 1..Len(q) : q[i] \in WhiteSpace

\* C33: a request is rejected for its query exactly when the query is
\* missing, is not a string, is empty after trimming, or is longer than the
\* limit of 500 characters; a non-blank query of exactly the limit passes,
\* one of a character more does not.
C33_QueryValidation ==
    pf.fn = "handleQueryRequest" /\ pf.body.parsed =>
        LET query == pf.body.query
            bad == \/ query \in {Absent, JSNull}
                   \/ query.t # "string"
                   \/ Blank(query.v)
                   \/ Len(query.v) > QueryLimit
        IN  /\ pf.error # "" <=> bad
            /\ query.t = "string" /\ ~Blank(query.v) /\ Len(query.v) = QueryLimit
                  => pf.error = ""
            /\ query.t = "string" /\ Len(query.v) = QueryLimit + 1 => pf.error # ""
\* A non-blank query of exactly the limit was accepted.
C33_Witness ==
    /\ pf.fn = "handleQueryRequest"
    /\ pf.body.parsed /\ pf.body.query.t = "string"
    /\ Len(pf.body.query.v) = QueryLimit /\ ~Blank(pf.body.query.v)
    /\ pf.error = ""

\* The triple a key stands for: the shop, the collection handle ("all"
\* without one) and the normalized query.
Normalized(triple) ==
    <<triple.shop,
      IF triple.handle \in DefaultHandles THEN AllHandle ELSE triple.handle,
      trim(toLowerCase(triple.query))>>

\* C34: two triples of shop, collection handle and normalized query that
\* differ in a component never have the same cacheKey, so a cacheGet for one
\* never returns what was stored for another.
C34_KeysInjective ==
    pf.fn = "cacheGet" /\ Normalized(pf.stored) # Normalized(pf.asked) =>
        pf.storedKey # pf.askedKey /\ ~pf.hit

\* C35: a cacheGet that hits moves the entry to the most recently used
\* position and leaves its timestamp, the time of its last cacheSet, as it
\* was; a cacheGet more than the TTL after that cacheSet misses and removes
\* the entry, whatever was read in between.
C35_ReadsKeepTimestamp ==
    [][ cacheOp'.op = "get"
        => LET key == cacheOp'.key
               i == IndexOf(cache, key)
           IN  /\ cacheOp'.hit =>
                     /\ i # 0
                     /\ cache'[Len(cache')].key = key
                     /\ cache'[Len(cache')].timestamp = cache[i].timestamp
                     /\ cache'[Len(cache')].timestamp = LastSetOf(key).at
               /\ i # 0 /\ now - LastSetOf(key).at > TTL_MS =>
                     ~cacheOp'.hit /\ key \notin KeysOf(cache') ]_vars
\* An entry was read, with a hit, later than it was set: it is the most
\* recently used one and still carries the time of its cacheSet.
C35_Witness ==
    /\ cacheOp.op = "get" /\ cacheOp.hit
    /\ cache[Len(cache)].key = cacheOp.key
    /\ cache[Len(cache)].timestamp < now
    /\ cache[Len(cache)].timestamp = LastSetOf(cacheOp.key).at
    /\ Len(cache) > 1

\* C36: the windowStart of a key changes only when a call starts a fresh
\* window, so denied calls do not move it; whatever was denied during a
\* window, a call at or after windowStart + windowMs is allowed and starts
\* the next window.
C36_DeniedKeepWindow ==
    [][ /\ \A k \in RateKeys :
              windows[k] # NoWindow /\ windows'[k] # NoWindow
              /\ windows'[k].windowStart # windows[k].windowStart
                 => /\ rlOp'.op = "check" /\ rlOp'.key = k /\ rlOp'.allowed
                    /\ windows'[k] = [windowStart |-> now, count |-> 1]
                    /\ now - windows[k].windowStart >= rlCfg[k].windowMs
        /\ rlOp'.op = "check" =>
              LET k == rlOp'.key
              IN  /\ ~rlOp'.allowed => windows'[k].windowStart = windows[k].windowStart
                  /\ windows[k] # NoWindow
                     /\ now >= windows[k].windowStart + rlCfg[k].windowMs
                        => rlOp'.allowed /\ windows'[k].windowStart = now ]_vars
\* Two calls were denied during a window and the call that has just been
\* made, at or after the end of that window, was allowed.
C36_Witness ==
    /\ rlOp.op = "check" /\ rlOp.allowed
    /\ rlOp.deniedBefore >= 2
    /\ windows[rlOp.key] = [windowStart |-> now, count |-> 1]

\* C37: fetchAllPages terminates after finitely many page fetches whatever
\* the pages are, also when pages without items report hasNextPage = true.
C37_Terminates == <>(pf.pc = "done")

\* A sync's update commits in this step: the inline sync of a request, or
\* the background sync; the catalog it read.
WriteCommits(fetched) ==
    \/ \E r \in RequestIds :
          req[r].pc = "syncWrite" /\ req'[r].pc = "syncFlush" /\ req[r].fetched = fetched
    \/ bg.pc = "write" /\ bg'.pc = "flush" /\ bg.fetched = fetched
\* The catalog changed after the sync read it and the webhook of that
\* change has been handled: it was handled while the sync was in flight.
ChangeHandledInFlight(fetched) ==
    fetched # catalog /\ ~webhook.pending /\ ~webhook.uninstalled

\* C38: when a catalog-change webhook was handled while a sync was in flight,
\* the shop record is stale right after that sync's write.
C38_ChangeNotLost ==
    [][\A fetched \in 0..MaxCatalog :
          WriteCommits(fetched) /\ ChangeHandledInFlight(fetched)
              => isTaxonomyStale(shopRec', now)]_vars

\* The vocabulary a dimension is corrected against.
VocabularyOf(k, taxonomy) ==
    CASE k = "productType" -> taxonomy.productTypes
      [] k = "productVendor" -> taxonomy.vendors
      [] k = "tag" -> taxonomy.tags
      [] OTHER -> <<>>
\* The members an option of a filter has.
OptionKeys(vo) ==
    IF vo.t # "object" THEN {}
    ELSE {k \in {"name", "value"} : vo[k] # Absent}
NoVocabulary(taxonomy) ==
    \/ taxonomy = Absent
    \/ /\ taxonomy.productTypes = <<>> /\ taxonomy.vendors = <<>>
       /\ taxonomy.tags = <<>> /\ taxonomy.variantOptions = <<>>

\* C39: the list fuzzyCorrectFilters returns has as many filters as its
\* input; the filter at each position has the price and the availability of
\* the input filter at that position and the same dimensions, each of them
\* as it was or a value of its vocabulary; the list is the input when there
\* is no taxonomy or all its vocabularies are empty.
C39_FuzzyFrame ==
    pf.fn = "corrected" =>
        /\ Len(pf.result) = Len(pf.filters)
        /\ \A i \in 1..Len(pf.filters) :
              LET f == pf.filters[i]
                  c == pf.result[i]
              IN  /\ c.price = f.price
                  /\ c.available = f.available
                  /\ ObjectKeys(c) = ObjectKeys(f)
                  /\ OptionKeys(c.variantOption) = OptionKeys(f.variantOption)
                  /\ \A k \in {"productType", "productVendor", "tag"} :
                        \/ c[k] = f[k]
                        \/ /\ c[k].t = "string"
                           /\ c[k].v \in Range(VocabularyOf(k, pf.taxonomy))
        /\ NoVocabulary(pf.taxonomy) => pf.result = pf.filters
\* Two filters went in, the first with a type that is a near miss and a
\* price, the second with an availability only; the type was corrected.
C39_Witness ==
    /\ pf.fn = "corrected"
    /\ Len(pf.filters) = 2
    /\ pf.filters[1].productType = JSStr(<<"b", "o", "o", "t">>)
    /\ pf.filters[1].price = JSPrice(Absent, JSNum(2))
    /\ pf.filters[2] = OneFilter("available", JSBool(FALSE))
    /\ pf.result[1].productType = JSStr(Boots)
    /\ pf.result[1].price = JSPrice(Absent, JSNum(2))
    /\ pf.result[2] = pf.filters[2]

(***************************************************************************)
(* SpecGate: POSTs to the query path from two shops, each through the      *)
(* route's action and on into handleQueryRequest up to the cache check,    *)
(* with time passing; a tick is 30 seconds                                 *)
(***************************************************************************)
\* Last tick of the clock of SpecGate.
GateMaxTime == 3
GateShops == {"a", "b"}
\* `ai:${shop}`
RouteKey(shop) == "ai:" \o shop
GateKeys == {RouteKey(shop) : shop \in GateShops}
GateBodies == {NoBody, Body(JSStr(<<" ">>)), Body(JSStr(<<"a">>))}
\* A POST: its shop (session?.shop, none when not authorized), its body, and
\* what handleQueryRequest will find: the row's enabled, a live cache entry.
GateRequest(shop, authorized, body, enabled, cached) ==
    [shop |-> shop, authorized |-> authorized, body |-> body,
     enabled |-> enabled, cached |-> cached, stage |-> "arrived"]
NoGateRequest == GateRequest("", FALSE, NoBody, FALSE, FALSE)

action_ValidateFirst(w, rq, t) ==
    IF ~rq.authorized THEN [windows |-> w, stage |-> "unauthorized"]
    ELSE IF QueryError(rq.body) # "" THEN [windows |-> w, stage |-> "handleQueryRequest"]
    ELSE LET limit == checkRateLimit(w, RouteKey(rq.shop), AI_RATE_LIMIT, RATE_WINDOW_MS, t)
         IN  [windows |-> limit.windows,
              stage |-> IF limit.allowed THEN "handleQueryRequest" ELSE "limited"]
\* action({request}) for the path "query": the Map of the rate limiter
\* afterwards, and where the request is when action returns or hands over.
action(w, rq, t) ==
    IF ~rq.authorized THEN [windows |-> w, stage |-> "unauthorized"]
    ELSE LET limit == checkRateLimit(w, RouteKey(rq.shop), AI_RATE_LIMIT, RATE_WINDOW_MS, t)
         IN  [windows |-> limit.windows,
              stage |-> IF limit.allowed THEN "handleQueryRequest" ELSE "limited"]
\* handleQueryRequest from the reading of the body to the cache check: how
\* the request leaves it, "resolve" for a miss that goes on to the LLM.
handleQueryRequest(rq) ==
    IF QueryError(rq.body) # "" THEN "invalid"
    ELSE IF ~rq.enabled THEN "disabled"
    ELSE IF rq.cached THEN "cached"
    ELSE "resolve"

InitGate ==
    /\ RestIdle
    /\ pf = [fn |-> "action", windows |-> [k \in GateKeys |-> NoWindow],
             last |-> NoGateRequest]
\* A POST to the query path arrives and action runs.
Post(shop, authorized, body, enabled, cached) ==
    LET rq == GateRequest(shop, authorized, body, enabled, cached)
        r == action(pf.windows, rq, now)
    IN  /\ pf.fn = "action"
        /\ \A k \in GateKeys : r.windows[k] # NoWindow => r.windows[k].count <= AI_RATE_LIMIT + 1
        /\ pf' = [pf EXCEPT !.windows = r.windows, !.last = [rq EXCEPT !.stage = r.stage]]
        /\ PureFrame
\* handleQueryRequest runs for the request action handed over.
HandleQueryRequest ==
    /\ pf.fn = "action"
    /\ pf.last.stage = "handleQueryRequest"
    /\ pf' = [pf EXCEPT !.last.stage = handleQueryRequest(pf.last)]
    /\ PureFrame
GateTick ==
    /\ pf.fn = "action"
    /\ now < GateMaxTime
    /\ now' = now + 1
    /\ UNCHANGED <<kq, cacheVars, rateVars, orchVars, pf>>

NextGate ==
    \/ \E shop \in GateShops, authorized \in BOOLEAN, body \in GateBodies,
          enabled \in BOOLEAN, cached \in BOOLEAN :
            Post(IF authorized THEN shop ELSE "", authorized, body, enabled, cached)
    \/ HandleQueryRequest
    \/ GateTick
SpecGate == InitGate /\ [][NextGate]_vars

\* action ran for a request in this step; handleQueryRequest returned.
Posted ==
    pf' # pf /\ pf'.last.stage \in {"unauthorized", "limited", "handleQueryRequest"}
Handled == pf' # pf /\ ~Posted

\* C40: the step in which a POST of an authorized shop goes through action
\* counts it in the window of that shop's key (one more in a running window,
\* 1 in a fresh one) whatever its body, answers "limited" or hands over on
\* that window alone, and leaves every other shop's window as it is; a POST
\* without a shop counts nothing; handleQueryRequest, which reads the body
\* afterwards and ends the request as invalid, disabled, cached or resolved,
\* changes no window.
C40_RateLimitFirst ==
    [][ /\ Posted =>
              LET rq == pf'.last
                  key == RouteKey(rq.shop)
              IN  IF ~rq.authorized
                  THEN pf'.windows = pf.windows /\ rq.stage = "unauthorized"
                  ELSE LET old == pf.windows[key]
                           running == old # NoWindow /\ now - old.windowStart < RATE_WINDOW_MS
                       IN  /\ pf'.windows[key] =
                                 IF running
                                 THEN [windowStart |-> old.windowStart, count |-> old.count + 1]
                                 ELSE [windowStart |-> now, count |-> 1]
                           /\ rq.stage = IF running /\ old.count >= AI_RATE_LIMIT
                                         THEN "limited" ELSE "handleQueryRequest"
                           /\ \A k \in GateKeys \ {key} : pf'.windows[k] = pf.windows[k]
        /\ Handled =>
              /\ pf.last.stage = "handleQueryRequest"
              /\ pf'.windows = pf.windows
              /\ pf'.last.stage \in {"invalid", "disabled", "cached", "resolve"} ]_vars
\* Shop a has used up its window; in the same window shop b's second
\* request, whose body is not valid, was counted and handed over, and
\* handleQueryRequest has turned it away.
C40_Witness ==
    /\ pf.fn = "action"
    /\ pf.windows[RouteKey("a")] = [windowStart |-> 0, count |-> AI_RATE_LIMIT + 1]
    /\ pf.windows[RouteKey("b")] = [windowStart |-> 0, count |-> 2]
    /\ pf.last.shop = "b" /\ pf.last.stage = "invalid"
    /\ now = 0

====
